---- MODULE Spec2Model ----
(***************************************************************************)
(* Model of the adaptive reasoning dispatcher of src/reasoning_system.py:  *)
(* RealtimeSearchService (freshness gate), ResponseCache and               *)
(* GeminiReasoningSystem.process with its helpers.                         *)
(*                                                                         *)
(* A text is a sequence of characters; a character is a one-character      *)
(* string.  Two characters that a TLA+ string literal cannot hold are      *)
(* written as named tokens (Backtick, CombiningAcute).                     *)
(***************************************************************************)
EXTENDS Integers, Sequences, FiniteSets, TLC

Backtick == "<U+0060>"
CombiningAcute == "<U+0301>"

UpperCase == <<"A", "B", "C", "D", "E", "F", "G", "H", "I", "J", "K", "L", "M", "N", "O", "P", "Q", "R", "S", "T", "U", "V", "W", "X", "Y", "Z">>
LowerCase == <<"a", "b", "c", "d", "e", "f", "g", "h", "i", "j", "k", "l", "m", "n", "o", "p", "q", "r", "s", "t", "u", "v", "w", "x", "y", "z">>
Accented == <<"á", "ã", "ç", "é", "í", "õ">>
AccentBase == <<"a", "a", "c", "e", "i", "o">>
DigitChars == <<"0", "1", "2", "3", "4", "5", "6", "7", "8", "9">>
Whitespace == {" ", "\n", "\t"}

Range(s) == {s[i] : i \in 1..Len(s)}

IndexOf(s, c) == CHOOSE i \in 1..Len(s) : s[i] = c

UpperLetters == Range(UpperCase)
AccentedLetters == Range(Accented)
Digits == Range(DigitChars)
WordChars == Range(LowerCase) \cup UpperLetters \cup Digits \cup AccentedLetters \cup {"_"}

\* str.lower on one character
LowerChar(c) == IF c \in UpperLetters THEN LowerCase[IndexOf(UpperCase, c)] ELSE c

\* str.lower
Lower(t) == [i \in 1..Len(t) |-> LowerChar(t[i])]

\* str.strip: drop leading and trailing whitespace
Strip(t) ==
    IF \A i \in 1..Len(t) : t[i] \in Whitespace THEN << >>
    ELSE LET a == CHOOSE i \in 1..Len(t) :
                      t[i] \notin Whitespace /\ \A j \in 1..(i - 1) : t[j] \in Whitespace
             b == CHOOSE i \in 1..Len(t) :
                      t[i] \notin Whitespace /\ \A j \in (i + 1)..Len(t) : t[j] \in Whitespace
         IN  SubSeq(t, a, b)

\* len(str.split()): the number of maximal runs of non-whitespace
WordCount(t) ==
    Cardinality({i \in 1..Len(t) : t[i] \notin Whitespace /\ (i = 1 \/ t[i-1] \in Whitespace)})

\* str.count of a single character
CountChar(t, c) == Cardinality({i \in 1..Len(t) : t[i] = c})

\* the substring test `w in t`
Contains(t, w) == \E i \in 1..(Len(t) - Len(w) + 1) : \A k \in 1..Len(w) : t[i + k - 1] = w[k]

Concat(pieces) ==
    LET RECURSIVE cat(_)
        cat(k) == IF k = 0 THEN << >> ELSE cat(k - 1) \o pieces[k]
    IN  cat(Len(pieces))

\* all sequences over S of length at most n
SeqsUpTo(S, n) == UNION {[1..k -> S] : k \in 0..n}

(***************************************************************************)
(* RealtimeSearchService: time sensitivity of an input                     *)
(***************************************************************************)

\* unicodedata.normalize("NFKD") followed by dropping combining marks, then lower
NormalizeChar(c) == IF c \in AccentedLetters THEN AccentBase[IndexOf(Accented, c)] ELSE LowerChar(c)

IsCombining(c) == c = CombiningAcute

NotCombining(c) == ~IsCombining(c)

_normalize_for_match(value) ==
    LET ascii_only == SelectSeq(value, NotCombining)
    IN  [i \in 1..Len(ascii_only) |-> NormalizeChar(ascii_only[i])]

\* regex classes \w, \d, \s on normalized text
IsWordChar(c) == c \in WordChars

IsDigit(c) == c \in Digits

DigitValue(c) == IndexOf(DigitChars, c) - 1

WordAt(t, i) == i >= 1 /\ i <= Len(t) /\ IsWordChar(t[i])

\* regex \b before position i (1..Len(t)+1)
WordBoundary(t, i) == WordAt(t, i - 1) # WordAt(t, i)

\* a pattern is a sequence of character classes; Lit turns a literal into one
Lit(w) == [k \in 1..Len(w) |-> {w[k]}]

MatchAt(t, p, i) == i + Len(p) - 1 <= Len(t) /\ \A k \in 1..Len(p) : t[i + k - 1] \in p[k]

\* re.search(r"\b<p>\b", t)
SearchBounded(t, p) ==
    \E i \in 1..(Len(t) - Len(p) + 1) :
        t[i] \in p[1] /\ MatchAt(t, p, i) /\ WordBoundary(t, i) /\ WordBoundary(t, i + Len(p))

\* the positions just after one or more characters of class C starting at i
PlusEnd(t, i, C) == {j \in (i + 1)..(Len(t) + 1) : \A m \in i..(j - 1) : t[m] \in C}

\* re.search(r"\bultimos?\s+\d+\s+(dias|semanas|meses)\b", t)
SearchLastN(t) ==
    \E i \in 1..Len(t) : \E head \in {<<"u", "l", "t", "i", "m", "o">>, <<"u", "l", "t", "i", "m", "o", "s">>} :
        /\ WordBoundary(t, i)
        /\ MatchAt(t, Lit(head), i)
        /\ \E j \in PlusEnd(t, i + Len(head), Whitespace) :
           \E k \in PlusEnd(t, j, Digits) :
           \E l \in PlusEnd(t, k, Whitespace) :
           \E tail \in {<<"d", "i", "a", "s">>, <<"s", "e", "m", "a", "n", "a", "s">>, <<"m", "e", "s", "e", "s">>} :
               MatchAt(t, Lit(tail), l) /\ WordBoundary(t, l + Len(tail))

\* the literal patterns of TIME_SENSITIVE_PATTERNS, optional letters expanded
TimeSensitiveWords == {
    <<"h", "o", "j", "e">>, <<"a", "g", "o", "r", "a">>, <<"a", "t", "u", "a", "l">>, <<"a", "t", "u", "a", "l", "i", "z", "a", "d", "o">>, <<"r", "e", "c", "e", "n", "t", "e">>,
    <<"u", "l", "t", "i", "m", "o">>, <<"u", "l", "t", "i", "m", "a">>, <<"u", "l", "t", "i", "m", "o", "s">>, <<"u", "l", "t", "i", "m", "a", "s">>,
    <<"e", "s", "s", "a", " ", "s", "e", "m", "a", "n", "a">>, <<"e", "s", "t", "e", " ", "m", "e", "s">>,
    <<"l", "a", "t", "e", "s", "t">>, <<"n", "e", "w">>, <<"n", "e", "w", "s">>, <<"r", "e", "l", "e", "a", "s", "e">>, <<"l", "a", "n", "c", "a", "m", "e", "n", "t", "o">>, <<"c", "h", "a", "n", "g", "e", "l", "o", "g">>,
    <<"b", "r", "e", "a", "k", "i", "n", "g", " ", "c", "h", "a", "n", "g", "e">>, <<"b", "r", "e", "a", "k", "i", "n", "g", " ", "c", "h", "a", "n", "g", "e", "s">>,
    <<"p", "r", "e", "c", "o">>, <<"c", "o", "t", "a", "c", "a", "o">>, <<"v", "e", "r", "s", "a", "o">>, <<"p", "r", "e", "s", "i", "d", "e", "n", "t", "e">>, <<"c", "e", "o">>, <<"l", "e", "i">>,
    <<"d", "e", "c", "r", "e", "t", "o">>, <<"r", "e", "g", "u", "l", "a", "c", "a", "o">>, <<"r", "o", "a", "d", "m", "a", "p">> }

\* r"\b202[5-9]\b" and r"\b20[3-9][0-9]\b"
YearPatterns == {
    << {"2"}, {"0"}, {"2"}, {"5", "6", "7", "8", "9"} >>,
    << {"2"}, {"0"}, {"3", "4", "5", "6", "7", "8", "9"}, Digits >> }

TIME_SENSITIVE_PATTERNS == {Lit(w) : w \in TimeSensitiveWords} \cup YearPatterns

RecencyCutoff == 2025

\* r"20\d{2}", the \b on both sides being applied where it is searched
YEAR_PATTERN == << {"2"}, {"0"}, Digits, Digits >>

\* YEAR_PATTERN.findall: the values of the matches of r"\b(20\d{2})\b"
YearsFound(t) ==
    {2000 + 10 * DigitValue(t[i + 2]) + DigitValue(t[i + 3]) :
        i \in {n \in 1..(Len(t) - 3) :
                  /\ WordBoundary(t, n)
                  /\ MatchAt(t, YEAR_PATTERN, n)
                  /\ WordBoundary(t, n + 4)}}

should_search_NoYearRule(enabled, user_input) ==
    LET text == _normalize_for_match(user_input)
    IN  /\ enabled
        /\ \/ \E p \in {Lit(w) : w \in TimeSensitiveWords} : SearchBounded(text, p)
           \/ SearchLastN(text)
           \/ \E year \in YearsFound(text) : year > RecencyCutoff

should_search(enabled, user_input) ==
    LET text == _normalize_for_match(user_input)
    IN  IF ~enabled THEN FALSE
        ELSE IF \/ \E p \in TIME_SENSITIVE_PATTERNS : SearchBounded(text, p)
                \/ SearchLastN(text)
             THEN TRUE
        ELSE \E year \in YearsFound(text) : year >= RecencyCutoff

(***************************************************************************)
(* GeminiReasoningSystem: complexity score and mode selection              *)
(***************************************************************************)

VOICE_FAST == "voice_fast"
REASONING_DEEP == "reasoning_deep"
HYBRID == "hybrid"
ReasoningMode == {VOICE_FAST, REASONING_DEEP, HYBRID}

critical_keywords == <<
    <<"d", "e", "b", "u", "g">>, <<"d", "e", "b", "u", "g", "a", "r">>,
    <<"e", "r", "r", "o", " ", "c", "r", "i", "t", "i", "c", "o">>, <<"e", "r", "r", "o", " ", "c", "r", "í", "t", "i", "c", "o">>, <<"e", "x", "c", "e", "p", "t", "i", "o", "n">>, <<"t", "r", "a", "c", "e", "b", "a", "c", "k">>,
    <<"c", "r", "a", "s", "h">>, <<"n", "a", "o", " ", "f", "u", "n", "c", "i", "o", "n", "a", " ", "d", "e", " ", "j", "e", "i", "t", "o", " ", "n", "e", "n", "h", "u", "m">>, <<"n", "ã", "o", " ", "f", "u", "n", "c", "i", "o", "n", "a", " ", "d", "e", " ", "j", "e", "i", "t", "o", " ", "n", "e", "n", "h", "u", "m">>,
    <<"c", "o", "m", "p", "a", "r", "a", "r", " ", "t", "e", "c", "n", "o", "l", "o", "g", "i", "a", "s">>, <<"q", "u", "a", "l", " ", "b", "i", "b", "l", "i", "o", "t", "e", "c", "a", " ", "u", "s", "a", "r">>,
    <<"a", "r", "q", "u", "i", "t", "e", "t", "u", "r", "a", " ", "d", "o", " ", "s", "i", "s", "t", "e", "m", "a">>, <<"d", "e", "s", "i", "g", "n", " ", "p", "a", "t", "t", "e", "r", "n">>,
    <<"o", "t", "i", "m", "i", "z", "a", "c", "a", "o", " ", "d", "e", " ", "p", "e", "r", "f", "o", "r", "m", "a", "n", "c", "e">>, <<"o", "t", "i", "m", "i", "z", "a", "ç", "ã", "o", " ", "d", "e", " ", "p", "e", "r", "f", "o", "r", "m", "a", "n", "c", "e">>, <<"b", "o", "t", "t", "l", "e", "n", "e", "c", "k">>,
    <<"r", "e", "f", "a", "t", "o", "r", "a", "c", "a", "o", " ", "c", "o", "m", "p", "l", "e", "x", "a">>, <<"r", "e", "f", "a", "t", "o", "r", "a", "ç", "ã", "o", " ", "c", "o", "m", "p", "l", "e", "x", "a">>, <<"a", "l", "g", "o", "r", "i", "t", "m", "o", " ", "e", "f", "i", "c", "i", "e", "n", "t", "e">> >>

CodeFence == <<Backtick, Backtick, Backtick>>

SimpleGreeting == <<"o", "i", ",", " ", "t", "u", "d", "o", " ", "b", "e", "m", "?">>

KeywordWeight == 3
CodeBlockWeight == 4
LongTextWeight == 3
QuestionsWeight == 3
LongTextWords == 60
ManyQuestions == 2
DeepThreshold == 8

MatchedKeywords(user_input) ==
    LET text_lower == Lower(user_input)
    IN  {k \in 1..Len(critical_keywords) : Contains(text_lower, critical_keywords[k])}

\* the score ignores everything once a code fence is seen
_compute_complexity_score_FenceOnly(user_input) ==
    IF Contains(user_input, CodeFence) THEN CodeBlockWeight
    ELSE KeywordWeight * Cardinality(MatchedKeywords(user_input))
         + (IF WordCount(user_input) > LongTextWords THEN LongTextWeight ELSE 0)
         + (IF CountChar(user_input, "?") > ManyQuestions THEN QuestionsWeight ELSE 0)

\* the keywords are looked for in the input as typed, not in its lower case
_compute_complexity_score_CaseSensitive(user_input) ==
    LET has_code_block == Contains(user_input, CodeFence)
        is_very_long == WordCount(user_input) > LongTextWords
        has_multiple_questions == CountChar(user_input, "?") > ManyQuestions
    IN  KeywordWeight * Cardinality({k \in 1..Len(critical_keywords) : Contains(user_input, critical_keywords[k])})
        + (IF has_code_block THEN CodeBlockWeight ELSE 0)
        + (IF is_very_long THEN LongTextWeight ELSE 0)
        + (IF has_multiple_questions THEN QuestionsWeight ELSE 0)

_compute_complexity_score(user_input) ==
    LET has_code_block == Contains(user_input, CodeFence)
        is_very_long == WordCount(user_input) > LongTextWords
        has_multiple_questions == CountChar(user_input, "?") > ManyQuestions
    IN  KeywordWeight * Cardinality(MatchedKeywords(user_input))
        + (IF has_code_block THEN CodeBlockWeight ELSE 0)
        + (IF is_very_long THEN LongTextWeight ELSE 0)
        + (IF has_multiple_questions THEN QuestionsWeight ELSE 0)

_select_mode_Threshold7(user_input) ==
    IF _compute_complexity_score(user_input) >= DeepThreshold - 1 THEN REASONING_DEEP ELSE VOICE_FAST

_select_mode(user_input) ==
    IF _compute_complexity_score(user_input) >= DeepThreshold THEN REASONING_DEEP ELSE VOICE_FAST

(***************************************************************************)
(* ReasoningResult and RealtimeContext                                     *)
(***************************************************************************)

\* Python None where a record is expected
None == [none |-> TRUE]

\* no forced mode
NoMode == "none"

\* confidences in hundredths
FastConfidence == 90
DeepConfidence == 95
ApologyConfidence == 0
UnverifiedConfidence == 35
CacheConfidenceFloor == 70
CacheHitMs == 5

\* tools_used: None and [] are both the empty sequence (every reader of the
\* field coalesces them with `or []`); thinking: None is the empty text
ReasoningResult(mode, text, thinking, tools_used, confidence) ==
    [mode |-> mode, text |-> text, thinking |-> thinking, tools_used |-> tools_used,
     confidence |-> confidence, execution_time_ms |-> 0]

EmptyContext == [text |-> << >>, sources |-> << >>]

Join(lines, sep) ==
    LET RECURSIVE join(_)
        join(k) == IF k = 0 THEN << >>
                   ELSE IF k = 1 THEN lines[1]
                   ELSE join(k - 1) \o sep \o lines[k]
    IN  join(Len(lines))

NL == <<"\n">>

\* decimal digits of a natural number
ShowNat(n) ==
    LET RECURSIVE show(_)
        show(m) == IF m < 10 THEN <<DigitChars[m + 1]>>
                   ELSE show(m \div 10) \o <<DigitChars[(m % 10) + 1]>>
    IN  show(n)

\* the clock reading formatted by strftime / isoformat
TimeText(now) == <<"T", "+">> \o ShowNat(now)

Min(a, b) == IF a <= b THEN a ELSE b

(***************************************************************************)
(* RealtimeSearchService.get_context                                       *)
(***************************************************************************)

MaxResults == 3
CacheTtlSeconds == 600

ContextHeader == <<"C", "O", "N", "T", "E", "X", "T", "O", " ", "E", "X", "T", "E", "R", "N", "O", " ", "A", "T", "U", "A", "L", "I", "Z", "A", "D", "O", " ", "(", "u", "s", "e", " ", "s", "o", "m", "e", "n", "t", "e", " ", "c", "o", "m", "o", " ", "r", "e", "f", "e", "r", "e", "n", "c", "i", "a", " ", "f", "a", "c", "t", "u", "a", "l", ")", ":">>

\* lines 154-173: the accepted snippets, at most max_results of them
AcceptedSnippets(snippets) ==
    LET considered == SubSeq(snippets, 1, Min(Len(snippets), MaxResults))
        clean(item) == [title |-> Strip(item.title), url |-> Strip(item.url),
                        published_at |-> Strip(item.published_at)]
        ok(item) == Strip(item.title) # << >> /\ Strip(item.url) # << >>
    IN  [i \in 1..Len(SelectSeq(considered, ok)) |-> clean(SelectSeq(considered, ok)[i])]

SnippetLine(source) ==
    <<"-", " ">> \o source.title
    \o (IF source.published_at # << >> THEN <<" ", "(">> \o source.published_at \o <<")">> ELSE << >>)
    \o <<" ", "|", " ">> \o source.url

\* the context is built without the two emptiness checks
BuildContext_NoEmptyCheck(snippets, now) ==
    LET sources == AcceptedSnippets(snippets)
        lines == [i \in 1..Len(sources) |-> SnippetLine(sources[i])]
    IN  [text |-> ContextHeader \o NL \o Join(lines, NL) \o NL
                  \o <<"C", "o", "l", "e", "t", "a", "d", "o", " ", "e", "m", ":", " ">> \o TimeText(now),
         sources |-> sources]

\* the check of line 150 is left out: no snippet found, a context is built
BuildContext_NoSnippetCheck(snippets, now) ==
    LET sources == AcceptedSnippets(snippets)
        lines == [i \in 1..Len(sources) |-> SnippetLine(sources[i])]
    IN  IF snippets # << >> /\ sources = << >> THEN EmptyContext
        ELSE [text |-> ContextHeader \o NL \o Join(lines, NL) \o NL
                       \o <<"C", "o", "l", "e", "t", "a", "d", "o", " ", "e", "m", ":", " ">> \o TimeText(now),
              sources |-> sources]

\* lines 149-189: the context built from the snippets found
BuildContext(snippets, now) ==
    LET sources == AcceptedSnippets(snippets)
        lines == [i \in 1..Len(sources) |-> SnippetLine(sources[i])]
    IN  IF snippets = << >> \/ sources = << >> THEN EmptyContext
        ELSE [text |-> ContextHeader \o NL \o Join(lines, NL) \o NL
                       \o <<"C", "o", "l", "e", "t", "a", "d", "o", " ", "e", "m", ":", " ">> \o TimeText(now),
              sources |-> sources]

\* the key of the TTL cache
ContextKey(user_input) == Lower(Strip(user_input))

\* an empty context is returned without being stored
get_context_NoNegativeCache(enabled, rt, now, user_input, fetch) ==
    LET key == ContextKey(user_input)
        fresh == key \in DOMAIN rt /\ rt[key].expires > now
    IN  IF ~should_search(enabled, user_input)
            THEN [raised |-> FALSE, context |-> EmptyContext, cache |-> rt, fetched |-> FALSE]
        ELSE IF fresh
            THEN [raised |-> FALSE, context |-> rt[key].context, cache |-> rt, fetched |-> FALSE]
        ELSE IF fetch.raises
            THEN [raised |-> TRUE, context |-> EmptyContext, cache |-> rt, fetched |-> TRUE]
        ELSE LET snippets == IF fetch.rss # << >> THEN fetch.rss ELSE fetch.ddg
                 context == BuildContext(snippets, now)
             IN  [raised |-> FALSE, context |-> context,
                  cache |-> IF context = EmptyContext THEN rt
                            ELSE (key :> [expires |-> now + CacheTtlSeconds, context |-> context]) @@ rt,
                  fetched |-> TRUE]

\* get_context: fetch is what the two external sources do, [raises, rss, ddg]:
\* the snippets each answers (a failure the source catches is the empty
\* list), or raises when a source fails with an exception it does not catch.
\* Returns [raised, context, cache, fetched].
get_context(enabled, rt, now, user_input, fetch) ==
    LET key == ContextKey(user_input)
        fresh == key \in DOMAIN rt /\ rt[key].expires > now
    IN  IF ~should_search(enabled, user_input)
            THEN [raised |-> FALSE, context |-> EmptyContext, cache |-> rt, fetched |-> FALSE]
        ELSE IF fresh
            THEN [raised |-> FALSE, context |-> rt[key].context, cache |-> rt, fetched |-> FALSE]
        ELSE IF fetch.raises
            THEN [raised |-> TRUE, context |-> EmptyContext, cache |-> rt, fetched |-> TRUE]
        ELSE LET snippets == IF fetch.rss # << >> THEN fetch.rss ELSE fetch.ddg
                 context == BuildContext(snippets, now)
             IN  [raised |-> FALSE, context |-> context,
                  cache |-> (key :> [expires |-> now + CacheTtlSeconds, context |-> context]) @@ rt,
                  fetched |-> TRUE]

(***************************************************************************)
(* ResponseCache                                                           *)
(***************************************************************************)

\* the dict: a sequence of [key, result] in insertion order, keys distinct.
\* _hash_key: the first 12 hex digits of the MD5 of the lowered, stripped
\* text; the digest is taken as injective on the texts modelled, so the key is
\* the normalized text itself.
\* the fingerprint of the text as typed, case kept
_hash_key_NoLower(text) == Strip(text)

_hash_key(text) == Strip(Lower(text))

CacheKeys(c) == {c[i].key : i \in 1..Len(c)}

CachePos(c, key) == CHOOSE i \in 1..Len(c) : c[i].key = key

\* the lookup finds nothing
ResponseCache_get_Miss(c, user_input) == None

\* the lookup is made with the raw text instead of its fingerprint
ResponseCache_get_RawKey(c, user_input) ==
    IF user_input \in CacheKeys(c) THEN c[CachePos(c, user_input)].result ELSE None

ResponseCache_get(c, user_input) ==
    LET key == _hash_key(user_input)
    IN  IF key \in CacheKeys(c) THEN c[CachePos(c, key)].result ELSE None

\* lines 279-282: the dict after a lookup that moves the entry read to the end
AfterGet_MoveToEnd(c, user_input) ==
    LET key == _hash_key(user_input)
    IN  IF key \in CacheKeys(c)
            THEN SelectSeq(c, LAMBDA e : e.key # key) \o <<c[CachePos(c, key)]>>
            ELSE c

\* lines 279-282: the dict after a lookup, which dict.get leaves as it was
AfterGet(c, user_input) == c

\* the eviction step with > in place of >=
AfterEviction_OffByOne(c, max) == IF Len(c) > max THEN Tail(c) ELSE c

\* lines 286-289: the dict after the eviction step
AfterEviction(c, max) == IF Len(c) >= max THEN Tail(c) ELSE c

\* lines 291-292: dict assignment keeps the position of a key already present
DictAssign(c, key, result) ==
    IF key \in CacheKeys(c)
        THEN [c EXCEPT ![CachePos(c, key)] = [key |-> key, result |-> result]]
        ELSE Append(c, [key |-> key, result |-> result])

\* the eviction step is skipped when the key is present
ResponseCache_set_EvictsForNewKeyOnly(c, max, user_input, result) ==
    IF _hash_key(user_input) \in CacheKeys(c)
        THEN DictAssign(c, _hash_key(user_input), result)
        ELSE DictAssign(AfterEviction(c, max), _hash_key(user_input), result)

\* lines 284-293
ResponseCache_set(c, max, user_input, result) ==
    DictAssign(AfterEviction(c, max), _hash_key(user_input), result)

(***************************************************************************)
(* GeminiReasoningSystem: the results process builds                       *)
(***************************************************************************)

StatusField == <<"S", "t", "a", "t", "u", "s", ":">>
CheckedField == <<"D", "a", "t", "a", " ", "d", "a", " ", "v", "e", "r", "i", "f", "i", "c", "a", "c", "a", "o", ":">>
SourcesField == <<"F", "o", "n", "t", "e", "s", ":">>
SourcesUnavailable == <<"F", "o", "n", "t", "e", "s", ":", " ", "i", "n", "d", "i", "s", "p", "o", "n", "i", "v", "e", "i", "s", " ", "n", "e", "s", "t", "a", " ", "t", "e", "n", "t", "a", "t", "i", "v", "a", ".">>
StatusVerified == <<"v", "e", "r", "i", "f", "i", "c", "a", "d", "o">>
StatusUnverified == <<"n", "a", "o", " ", "v", "e", "r", "i", "f", "i", "c", "a", "d", "o">>

_build_unverified_realtime_result(user_input, now) ==
    ReasoningResult(
        VOICE_FAST,
        Join(<< <<"E", "s", "s", "a", " ", "p", "e", "r", "g", "u", "n", "t", "a", " ", "d", "e", "p", "e", "n", "d", "e", " ", "d", "e", " ", "i", "n", "f", "o", "r", "m", "a", "c", "a", "o", " ", "a", "t", "u", "a", "l", "i", "z", "a", "d", "a", " ", "e", " ", "e", "u", " ", "n", "a", "o", " ", "c", "o", "n", "s", "e", "g", "u", "i", " ", "v", "a", "l", "i", "d", "a", "r", " ", "f", "o", "n", "t", "e", "s", " ", "r", "e", "c", "e", "n", "t", "e", "s", " ", "a", "g", "o", "r", "a", ".">>,
                StatusField \o <<" ">> \o StatusUnverified \o <<".">>,
                CheckedField \o <<" ">> \o TimeText(now),
                SourcesUnavailable,
                <<"S", "e", " ", "q", "u", "i", "s", "e", "r", ",", " ", "t", "e", "n", "t", "o", " ", "n", "o", "v", "a", "m", "e", "n", "t", "e", " ", "e", "m", " ", "i", "n", "s", "t", "a", "n", "t", "e", "s", " ", "o", "u", " ", "r", "e", "s", "p", "o", "n", "d", "o", " ", "a", "p", "e", "n", "a", "s", " ", "c", "o", "m", " ", "f", "u", "n", "d", "a", "m", "e", "n", "t", "o", "s", " ", "s", "e", "m", " ", "a", "f", "i", "r", "m", "a", "r", " ", "f", "a", "t", "o", "s", " ", "r", "e", "c", "e", "n", "t", "e", "s", ".">> >>,
             NL),
        << >>,
        << [type |-> "realtime_search", status |-> "unavailable"] >>,
        UnverifiedConfidence)

OrDefault(value, default) == IF value = << >> THEN default ELSE value

SourceLine(index, source) ==
    LET title == Strip(OrDefault(source.title, <<"F", "o", "n", "t", "e", " ", "s", "e", "m", " ", "t", "i", "t", "u", "l", "o">>))
        url == Strip(source.url)
        published == Strip(OrDefault(source.published_at, <<"s", "e", "m", " ", "d", "a", "t", "a", " ", "p", "u", "b", "l", "i", "c", "a">>))
    IN  ShowNat(index) \o <<".", " ">> \o title \o <<" ", "(">> \o published \o <<")">>
        \o (IF url # << >> THEN <<" ", "-", " ">> \o url ELSE << >>)

\* the block is appended without looking for the fields in the text
_enforce_temporal_output_contract_AlwaysAppend(text, sources, now) ==
    LET cleaned_text == Strip(text)
        has_sources == sources # << >>
        listed == SubSeq(sources, 1, Min(Len(sources), 5))
        source_lines ==
            IF has_sources
                THEN <<SourcesField>> \o [i \in 1..Len(listed) |-> SourceLine(i, listed[i])]
                ELSE <<SourcesUnavailable>>
        contract_block ==
            << StatusField \o <<" ">> \o (IF has_sources THEN StatusVerified ELSE StatusUnverified),
               CheckedField \o <<" ">> \o TimeText(now) >> \o source_lines
    IN  IF cleaned_text # << >>
            THEN cleaned_text \o NL \o NL \o Join(contract_block, NL)
            ELSE Join(contract_block, NL)

_enforce_temporal_output_contract(text, sources, now) ==
    LET cleaned_text == Strip(text)
        checked_at == TimeText(now)
        has_sources == sources # << >>
        status == IF has_sources THEN StatusVerified ELSE StatusUnverified
        listed == SubSeq(sources, 1, Min(Len(sources), 5))
        source_lines ==
            IF has_sources
                THEN <<SourcesField>> \o [i \in 1..Len(listed) |-> SourceLine(i, listed[i])]
                ELSE <<SourcesUnavailable>>
        contract_block ==
            << StatusField \o <<" ">> \o status, CheckedField \o <<" ">> \o checked_at >> \o source_lines
    IN  IF /\ Contains(cleaned_text, StatusField)
           /\ Contains(cleaned_text, CheckedField)
           /\ (Contains(cleaned_text, SourcesField) \/ Contains(cleaned_text, <<"F", "o", "n", "t", "e", "s", ":", " ", "i", "n", "d", "i", "s", "p", "o", "n", "i", "v", "e", "i", "s">>))
            THEN cleaned_text
        ELSE IF cleaned_text # << >>
            THEN cleaned_text \o NL \o NL \o Join(contract_block, NL)
        ELSE Join(contract_block, NL)

(***************************************************************************)
(* The generative provider                                                 *)
(***************************************************************************)

\* _build_fast_prompt / _build_reasoning_prompt: what of the prompt varies.
\* The format instruction (Status / Data da verificacao / Fontes) is part of
\* the prompt only when there is external context.
BuildPrompt(user_input, context, realtime_context) ==
    [user_input |-> user_input, context |-> context,
     realtime_block |-> realtime_context.text,
     format_instruction |-> realtime_context.text # << >>]

PlainAnswer == <<" ", "o", "k", " ">>
FormattedAnswer ==
    Join(<< <<"o", "k">>, <<"S", "t", "a", "t", "u", "s", ":", " ", "v", "e", "r", "i", "f", "i", "c", "a", "d", "o">>, <<"D", "a", "t", "a", " ", "d", "a", " ", "v", "e", "r", "i", "f", "i", "c", "a", "c", "a", "o", ":", " ", "o", "n", "t", "e", "m">>, <<"F", "o", "n", "t", "e", "s", ":">>, <<"1", ".", " ", "x">> >>, NL)

\* the texts the provider answers with: free text and, when the prompt asked
\* for the temporal format, an answer that already carries it
ProviderTexts(prompt) ==
    {PlainAnswer} \cup (IF prompt.format_instruction THEN {FormattedAnswer} ELSE {})

\* response.parts of a DEEP answer
NoParts == << >>
ThoughtAndCode ==
    << [kind |-> "thought", text |-> <<" ", "h", "m", " ">>],
       [kind |-> "executable_code", code |-> "c", language |-> "PYTHON"],
       [kind |-> "code_execution_result", output |-> "o"] >>

ProviderFailure == [error |-> TRUE]

\* what generate_content does for a prompt: an exception, or a response
FastOutcomes(prompt) ==
    {ProviderFailure} \cup {[error |-> FALSE, text |-> t, parts |-> NoParts] : t \in ProviderTexts(prompt)}

DeepOutcomes(prompt) ==
    {ProviderFailure} \cup
    {[error |-> FALSE, text |-> t, parts |-> ThoughtAndCode] : t \in ProviderTexts(prompt)}

ApologyText == <<"P", "o", "r", "r", "a", ",", " ", "d", "e", "u", " ", "r", "u", "i", "m", " ", "a", "q", "u", "i", ".", " ", "T", "e", "n", "t", "a", " ", "d", "e", " ", "n", "o", "v", "o", "?">>

\* the FAST call made, and whether it succeeded
FastCall(outcome) == [mode |-> VOICE_FAST, ok |-> ~outcome.error]

DeepCall(outcome) == [mode |-> REASONING_DEEP, ok |-> ~outcome.error]

\* _fast_response, given what the provider did: the result and the provider
\* calls made
_fast_response(outcome) ==
    [result |-> IF outcome.error
                    THEN ReasoningResult(VOICE_FAST, ApologyText, << >>, << >>, ApologyConfidence)
                    ELSE ReasoningResult(VOICE_FAST, outcome.text, << >>, << >>, FastConfidence),
     generations |-> <<FastCall(outcome)>>]

\* lines 600-617: thinking and tool records out of response.parts
ThinkingOf(parts) ==
    LET thoughts == SelectSeq(parts, LAMBDA p : p.kind = "thought" /\ p.text # << >>)
        stripped == SelectSeq([i \in 1..Len(thoughts) |-> Strip(thoughts[i].text)],
                              LAMBDA t : t # << >>)
    IN  Strip(Join(stripped, NL \o NL))

ToolsOf(parts) ==
    LET RECURSIVE tools(_)
        tools(k) ==
            IF k = 0 THEN << >>
            ELSE LET before == tools(k - 1)
                     part == parts[k]
                 IN  IF part.kind = "executable_code"
                         THEN Append(before, [type |-> "code_execution", code |-> part.code,
                                              language |-> part.language])
                     ELSE IF part.kind = "code_execution_result" /\ before # << >>
                         THEN [before EXCEPT ![Len(before)] = ("result" :> part.output) @@ @]
                     ELSE before
    IN  tools(Len(parts))

\* a DEEP failure surfaces the apology at once, without the FAST attempt
_deep_reasoning_NoFallback(deep_outcome, fast_outcome) ==
    IF deep_outcome.error
        THEN [result |-> ReasoningResult(VOICE_FAST, ApologyText, << >>, << >>, ApologyConfidence),
              generations |-> <<DeepCall(deep_outcome)>>]
        ELSE [result |-> ReasoningResult(REASONING_DEEP, deep_outcome.text,
                                         ThinkingOf(deep_outcome.parts),
                                         ToolsOf(deep_outcome.parts), DeepConfidence),
              generations |-> <<DeepCall(deep_outcome)>>]

\* _deep_reasoning, given what the provider did for the DEEP call and, when
\* that failed, for the FAST call of the fallback
_deep_reasoning(deep_outcome, fast_outcome) ==
    IF deep_outcome.error
        THEN [result |-> _fast_response(fast_outcome).result,
              generations |-> <<DeepCall(deep_outcome)>> \o _fast_response(fast_outcome).generations]
        ELSE [result |-> ReasoningResult(REASONING_DEEP, deep_outcome.text,
                                         ThinkingOf(deep_outcome.parts),
                                         ToolsOf(deep_outcome.parts), DeepConfidence),
              generations |-> <<DeepCall(deep_outcome)>>]

(***************************************************************************)
(* State                                                                   *)
(***************************************************************************)

VARIABLES
    enabled,      \* RealtimeSearchService.enabled
    rt_cache,     \* RealtimeSearchService._cache: key -> [expires, context]
    now,          \* the wall clock, in seconds
    cache,        \* ResponseCache.cache
    max_size,     \* ResponseCache.max_size
    log_file,     \* the number of records in the decision log
    call,         \* the arguments of the last process call, or None
    ret,          \* the result it returned
    trace,        \* the steps it ran
    clock,        \* the number of ResponseCache operations made so far
    inserted_at,  \* for each key in the ResponseCache, the clock when it was inserted
    cache_op,     \* the last ResponseCache operation
    fn_in,        \* arguments of the pure function under study, or None
    fn_out,       \* its return value, or None
    active_sessions,  \* MemorySystem.active_sessions: session id -> session
    sessions_file,    \* the content of active_sessions.json
    conversations,    \* the conversations collection: user -> number of documents
    user_facts,       \* the user_facts collection: user -> category -> number of documents
    solutions,        \* the solutions collection: user -> number of documents
    session_id,       \* OptimizedAssistant.session_id
    uuids,            \* the number of uuid4 values drawn so far
    mem_op,           \* the last MemorySystem or assistant operation and its outcome
    shutting_down,      \* OptimizedAssistant._shutting_down
    background_tasks,   \* OptimizedAssistant._background_tasks, in the order the loop runs them
    pending_user_meta,  \* OptimizedAssistant._pending_user_meta
    items_added,        \* the number of conversation items added so far
    caller,             \* the session whose assistant made the last process call
    written_by,         \* for each key of the two dispatcher caches, the session whose call wrote it
    dispatches,         \* the LiveKit server: for each room that exists, its agent dispatches
    requests            \* the token server: its ensure_agent_dispatch calls and where each stands

gateVars == <<enabled, rt_cache, now>>
cacheVars == <<cache, max_size>>
cacheGhost == <<clock, inserted_at, cache_op>>
processVars == <<log_file, call, ret, trace>>
fnVars == <<fn_in, fn_out>>
storeVars == <<conversations, user_facts, solutions>>
agentVars == <<shutting_down, background_tasks, pending_user_meta, items_added, caller, written_by>>
tokenVars == <<dispatches, requests>>
\* the memory and the assistant that owns it, and the token server beside them
memoryVars == <<active_sessions, sessions_file, storeVars, session_id, uuids, mem_op, agentVars, tokenVars>>

vars == <<enabled, rt_cache, now, cache, max_size, log_file, call, ret, trace,
          clock, inserted_at, cache_op, fn_in, fn_out,
          active_sessions, sessions_file, conversations, user_facts, solutions,
          session_id, uuids, mem_op,
          shutting_down, background_tasks, pending_user_meta, items_added, caller, written_by,
          dispatches, requests>>

DispatcherCacheSize == 50

EmptyDict == << >>

NoCacheOp == [op |-> "none"]

\* GeminiReasoningSystem.__init__ and its two members
DispatcherInit ==
    /\ rt_cache = EmptyDict
    /\ now = 0
    /\ cache = << >>
    /\ max_size = DispatcherCacheSize
    /\ log_file = 0
    /\ call = None
    /\ ret = None
    /\ trace = None

GhostIdle == clock = 0 /\ inserted_at = EmptyDict /\ cache_op = NoCacheOp

FnIdle == fn_in = None /\ fn_out = None

NoMemOp == [op |-> "none"]

\* OptimizedAssistant.__init__, lines 228-235; no process call was made
AgentIdle ==
    /\ shutting_down = FALSE
    /\ background_tasks = << >>
    /\ pending_user_meta = << >>
    /\ items_added = 0
    /\ caller = 0
    /\ written_by = EmptyDict

\* the token server has received no request and the LiveKit server has no room
TokenIdle == dispatches = EmptyDict /\ requests = EmptyDict

\* no MemorySystem has been constructed
MemoryIdle ==
    /\ active_sessions = EmptyDict
    /\ sessions_file = [kind |-> "absent"]
    /\ conversations = EmptyDict
    /\ user_facts = EmptyDict
    /\ solutions = EmptyDict
    /\ session_id = 0
    /\ uuids = 0
    /\ mem_op = NoMemOp
    /\ AgentIdle

(***************************************************************************)
(* GeminiReasoningSystem.process                                           *)
(***************************************************************************)

MaxLogRecords == 1
MaxTime == 600

\* the measured latency of a call that did not hit the cache
ElapsedMs == 120

Source1 == [title |-> <<"t", "1">>, url |-> <<"u", "1">>, published_at |-> <<"d", "1">>]
Source2 == [title |-> <<"t", "2">>, url |-> <<"u", "2">>, published_at |-> << >>]

\* what the external sources do during one get_context: the feed dates its
\* items or not, the instant-answer service never does
FetchOutcomes ==
    { [raises |-> TRUE, rss |-> << >>, ddg |-> << >>],
      [raises |-> FALSE, rss |-> << >>, ddg |-> << >>],
      [raises |-> FALSE, rss |-> <<Source2, Source1>>, ddg |-> <<Source2>>] }

Timed(result, ms) == [result EXCEPT !.execution_time_ms = ms]

RealtimeTool(sources) ==
    [type |-> "realtime_search", source_count |-> Len(sources), sources |-> sources]

\* the cache after a hit: the entry is the object returned, whose latency
\* field the caller of get overwrites
Touch(c, user_input, result) ==
    [c EXCEPT ![CachePos(c, _hash_key(user_input))].result = result]

\* the record is written twice
LogDecision_Twice(log_ok) == log_file' = IF log_ok THEN log_file + 2 ELSE log_file

\* lines 380-388 and 424-432: log_decision appends one record unless the
\* write fails, which is swallowed
LogDecision(log_ok) == log_file' = IF log_ok THEN log_file + 1 ELSE log_file

NoSteps ==
    [time_sensitive |-> FALSE, cache_hit |-> FALSE, fetched |-> FALSE, fetch_raised |-> FALSE,
     sources |-> << >>, mode |-> NoMode, generations |-> << >>, disclosed |-> FALSE,
     cache_written |-> FALSE]

\* lines 346-352: the cache hit
ProcessHit(user_input, cached) ==
    \E result \in {Timed(cached, CacheHitMs)} :
        /\ ret' = result
        /\ cache' = Touch(cache, user_input, result)
        /\ trace' = [NoSteps EXCEPT !.cache_hit = TRUE]
        /\ UNCHANGED <<rt_cache, log_file>>

\* line 374: the request is answered even without external context
NoExternalContext_Never(time_sensitive, realtime_context) == FALSE

\* line 374: a time-sensitive request for which no external context was found
NoExternalContext(time_sensitive, realtime_context) ==
    time_sensitive /\ realtime_context.text = << >>

\* lines 374-389: the answer to it
ProcessUnverified(user_input, mode, gc) ==
    \E log_ok \in BOOLEAN :
        /\ ret' = Timed(_build_unverified_realtime_result(user_input, now), ElapsedMs)
        /\ trace' = [NoSteps EXCEPT !.time_sensitive = TRUE, !.fetched = gc.fetched,
                                    !.fetch_raised = gc.raised, !.mode = mode]
        /\ rt_cache' = gc.cache
        /\ LogDecision(log_ok)
        /\ UNCHANGED cache

\* lines 396-417 without the disclosure step of lines 396-400
Finish_NoDisclosure(generated, time_sensitive, sources) ==
    IF sources # << >>
        THEN [Timed(generated, ElapsedMs) EXCEPT !.tools_used = Append(@, RealtimeTool(sources))]
        ELSE Timed(generated, ElapsedMs)

\* lines 396-417: the generated result after the disclosure step, the latency
\* measurement and the record of the realtime search
Finish(generated, time_sensitive, sources) ==
    LET disclosed ==
            IF time_sensitive
                THEN [generated EXCEPT !.text = _enforce_temporal_output_contract(@, sources, now)]
                ELSE generated
        timed == Timed(disclosed, ElapsedMs)
    IN  IF sources # << >>
            THEN [timed EXCEPT !.tools_used = Append(@, RealtimeTool(sources))]
            ELSE timed

\* line 405: the result is stored whatever the freshness of the request
ShouldStore_IgnoresFreshness(force_mode, time_sensitive, result) ==
    force_mode = NoMode /\ result.confidence > CacheConfidenceFloor

\* line 405: the result of a forced call is stored too
ShouldStore_IgnoresForce(force_mode, time_sensitive, result) ==
    ~time_sensitive /\ result.confidence > CacheConfidenceFloor

\* line 405: the condition of the cache write
ShouldStore(force_mode, time_sensitive, result) ==
    force_mode = NoMode /\ ~time_sensitive /\ result.confidence > CacheConfidenceFloor

\* lines 391-433: generation, disclosure, cache write, decision log
ProcessGenerate(user_input, context, force_mode, time_sensitive, mode, gc, realtime_context) ==
    \E prompt \in {BuildPrompt(user_input, context, realtime_context)} :
    \E deep_outcome \in (IF mode = VOICE_FAST THEN {ProviderFailure} ELSE DeepOutcomes(prompt)) :
    \E fast_outcome \in (IF mode = VOICE_FAST \/ deep_outcome.error
                            THEN FastOutcomes(prompt) ELSE {ProviderFailure}) :
    \E generated \in {IF mode = VOICE_FAST THEN _fast_response(fast_outcome)
                      ELSE _deep_reasoning(deep_outcome, fast_outcome)} :
    \E result \in {Finish(generated.result, time_sensitive, realtime_context.sources)} :
    \E store \in {ShouldStore(force_mode, time_sensitive, result)} :
    \E log_ok \in BOOLEAN :
        /\ ret' = result
        \* the object stored is the object returned
        /\ cache' = IF store THEN ResponseCache_set(cache, max_size, user_input, result) ELSE cache
        /\ trace' = [NoSteps EXCEPT !.time_sensitive = time_sensitive, !.fetched = gc.fetched,
                                    !.fetch_raised = gc.raised,
                                    !.sources = realtime_context.sources, !.mode = mode,
                                    !.generations = generated.generations,
                                    !.disclosed = time_sensitive, !.cache_written = store]
        /\ rt_cache' = gc.cache
        /\ LogDecision(log_ok)

NotFetched == [raised |-> FALSE, context |-> EmptyContext, cache |-> rt_cache, fetched |-> FALSE]

NoFetch == [raises |-> FALSE, rss |-> << >>, ddg |-> << >>]

\* lines 336-433
ProcessBody(user_input, context, force_mode) ==
    /\ log_file < MaxLogRecords
    /\ call' = [user_input |-> user_input, context |-> context, force_mode |-> force_mode]
    /\ \E time_sensitive \in {should_search(enabled, user_input)} :
       \E cached \in {IF force_mode = NoMode /\ ~time_sensitive
                         THEN ResponseCache_get(cache, user_input) ELSE None} :
           IF cached # None
               THEN ProcessHit(user_input, cached)
               ELSE \E mode \in {IF force_mode # NoMode THEN force_mode ELSE _select_mode(user_input)} :
                    \E fetch \in (IF time_sensitive THEN FetchOutcomes ELSE {NoFetch}) :
                    \E gc \in {IF time_sensitive
                                  THEN get_context(enabled, rt_cache, now, user_input, fetch)
                                  ELSE NotFetched} :
                    \E realtime_context \in {IF gc.raised THEN EmptyContext ELSE gc.context} :
                        IF NoExternalContext(time_sensitive, realtime_context)
                            THEN ProcessUnverified(user_input, mode, gc)
                            ELSE ProcessGenerate(user_input, context, force_mode, time_sensitive,
                                                 mode, gc, realtime_context)
    /\ UNCHANGED <<enabled, now, max_size>>

\* one call of process on a dispatcher that no assistant owns
Process(user_input, context, force_mode) ==
    /\ ProcessBody(user_input, context, force_mode)
    /\ UNCHANGED cacheGhost
    /\ UNCHANGED fnVars
    /\ UNCHANGED memoryVars

DeepQuestion == <<"D", "e", "b", "u", "g", ":", " ", "c", "r", "a", "s", "h", " ", Backtick, Backtick, Backtick, "x", Backtick, Backtick, Backtick>>
TimeSensitiveQuestion == <<"P", "r", "e", "ç", "o", " ", "H", "O", "J", "E", "?">>

\* the same question typed again, in lower case
DeepQuestionAgain == <<"d">> \o Tail(DeepQuestion)

ProcessInputs == {SimpleGreeting, DeepQuestion, TimeSensitiveQuestion}
Contexts == {<< >>}
ForcedModes == {NoMode, VOICE_FAST, REASONING_DEEP}

ProcessCall ==
    \E user_input \in ProcessInputs, context \in Contexts, force_mode \in ForcedModes :
        Process(user_input, context, force_mode)

\* time passes between calls, one time-to-live at a time
Tick ==
    /\ now + CacheTtlSeconds <= MaxTime
    /\ now' = now + CacheTtlSeconds
    /\ UNCHANGED <<enabled, rt_cache, cache, max_size, log_file, call, ret, trace>>
    /\ UNCHANGED cacheGhost
    /\ UNCHANGED fnVars
    /\ UNCHANGED memoryVars

Init ==
    /\ enabled \in BOOLEAN
    /\ DispatcherInit
    /\ GhostIdle
    /\ FnIdle
    /\ MemoryIdle
    /\ TokenIdle

Next == ProcessCall \/ Tick

Spec == Init /\ [][Next]_vars

(***************************************************************************)
(* ResponseCache on its own, for any capacity                              *)
(***************************************************************************)

MaxCapacity == 2
MaxCacheOps == 5

\* texts that differ in case only, in leading whitespace only, in inner whitespace only
CacheTexts == {<<"a">>, <<"A">>, <<" ", "a">>, <<"b">>, <<"b", " ", "c">>, <<"b", " ", " ", "c">>}

CacheResults ==
    { ReasoningResult(VOICE_FAST, PlainAnswer, << >>, << >>, FastConfidence),
      ReasoningResult(REASONING_DEEP, PlainAnswer, << >>, << >>, DeepConfidence) }

Restrict(f, S) == [x \in DOMAIN f \cap S |-> f[x]]

\* ResponseCache.set, with the record of when each key was inserted: the key
\* deleted by the eviction step loses its record, a key assigned while absent
\* gets a new one
SetCall(user_input, result) ==
    /\ clock < MaxCacheOps
    /\ cache' = ResponseCache_set(cache, max_size, user_input, result)
    /\ clock' = clock + 1
    /\ \E kept \in {Restrict(inserted_at, CacheKeys(AfterEviction(cache, max_size)))} :
           inserted_at' = IF _hash_key(user_input) \in DOMAIN kept THEN kept
                          ELSE (_hash_key(user_input) :> clock + 1) @@ kept
    /\ cache_op' = [op |-> "set", user_input |-> user_input, result |-> result, returned |-> None]
    /\ UNCHANGED <<max_size, gateVars, processVars, fnVars, memoryVars>>

\* ResponseCache.get
GetCall(user_input) ==
    /\ clock < MaxCacheOps
    /\ cache' = AfterGet(cache, user_input)
    /\ clock' = clock + 1
    /\ cache_op' = [op |-> "get", user_input |-> user_input,
                    returned |-> ResponseCache_get(cache, user_input)]
    /\ UNCHANGED <<inserted_at, max_size, gateVars, processVars, fnVars, memoryVars>>

CacheInit ==
    /\ max_size \in 1..MaxCapacity
    /\ cache = << >>
    /\ GhostIdle
    /\ enabled = TRUE
    /\ rt_cache = EmptyDict
    /\ now = 0
    /\ log_file = 0
    /\ call = None
    /\ ret = None
    /\ trace = None
    /\ FnIdle
    /\ MemoryIdle
    /\ TokenIdle

CacheNext ==
    \/ \E user_input \in CacheTexts, result \in CacheResults : SetCall(user_input, result)
    \/ \E user_input \in CacheTexts : GetCall(user_input)

SpecCache == CacheInit /\ [][CacheNext]_vars

(***************************************************************************)
(* should_search applied to bounded inputs                                 *)
(***************************************************************************)

MaxGatePieces == 3

GatePieces == {
    <<"2", "0", "2", "5">>, <<"2", "0", "9", "9">>, <<"2", "0", "2", "4">>, <<"2", "1", "0", "0">>,
    <<"a">>, <<" ">>, <<"?">>, <<"_">>, <<CombiningAcute>>, <<"H", "o", "j", "e">> }

GateInputs == {Concat(s) : s \in SeqsUpTo(GatePieces, MaxGatePieces)}

GateInit ==
    /\ fn_in \in [enabled : BOOLEAN, user_input : GateInputs]
    /\ fn_out = None
    /\ enabled = fn_in.enabled
    /\ DispatcherInit
    /\ GhostIdle
    /\ MemoryIdle
    /\ TokenIdle

ShouldSearchCall ==
    /\ fn_out = None
    /\ fn_out' = [should_search |-> should_search(enabled, fn_in.user_input)]
    /\ UNCHANGED fn_in
    /\ UNCHANGED <<gateVars, cacheVars, processVars, cacheGhost, memoryVars>>

GateNext == ShouldSearchCall

SpecGate == GateInit /\ [][GateNext]_vars

(***************************************************************************)
(* Complexity score and mode selection applied to bounded inputs           *)
(***************************************************************************)

MaxScorePieces == 3

\* 61 one-letter words
LongText == [i \in 1..(2 * (LongTextWords + 1)) |-> IF i % 2 = 1 THEN "a" ELSE " "]

ScorePieces == {
    <<"d", "e", "b", "u", "g">>, <<"D", "E", "B", "U", "G">>, <<"a", "r">>, <<"c", "r", "a", "s", "h">>, CodeFence, <<"?">>, <<" ">>, <<"x">>,
    SimpleGreeting, LongText }

ScoreInputs == {Concat(s) : s \in SeqsUpTo(ScorePieces, MaxScorePieces)}

ScoreInit ==
    /\ fn_in \in [user_input : ScoreInputs]
    /\ fn_out = None
    /\ enabled = TRUE
    /\ DispatcherInit
    /\ GhostIdle
    /\ MemoryIdle
    /\ TokenIdle

\* process, lines 354-355, without a forced mode
SelectModeCall ==
    /\ fn_out = None
    /\ fn_out' = [complexity_score |-> _compute_complexity_score(fn_in.user_input),
                  mode |-> _select_mode(fn_in.user_input)]
    /\ UNCHANGED fn_in
    /\ UNCHANGED <<gateVars, cacheVars, processVars, cacheGhost, memoryVars>>

\* a fenced code block: an opening fence, one line of code, a closing fence
CodeBlocks == {CodeFence \o <<"x">> \o CodeFence, <<" ">> \o CodeFence \o <<"x", " ", "y">> \o CodeFence}

\* _compute_complexity_score, lines 503-535, on the same input followed by a code block
ScoreWithCodeBlock(block) ==
    /\ fn_out # None
    /\ DOMAIN fn_out = {"complexity_score", "mode"}
    /\ fn_out' = [complexity_score |-> fn_out.complexity_score,
                  mode |-> fn_out.mode,
                  block |-> block,
                  with_block |-> _compute_complexity_score(fn_in.user_input \o block)]
    /\ UNCHANGED fn_in
    /\ UNCHANGED <<gateVars, cacheVars, processVars, cacheGhost, memoryVars>>

ScoreNext ==
    \/ SelectModeCall
    \/ \E block \in CodeBlocks : ScoreWithCodeBlock(block)

SpecScore == ScoreInit /\ [][ScoreNext]_vars

(***************************************************************************)
(* _enforce_temporal_output_contract applied again and again               *)
(***************************************************************************)

MaxContractPieces == 3
MaxApplications == 2

ContractPieces == {
    <<"o", "k">>, <<" ">>, NL, StatusField, CheckedField, SourcesField }

ContractTexts == {Concat(s) : s \in SeqsUpTo(ContractPieces, MaxContractPieces)}

\* a source with neither title nor link
BlankSource == [title |-> << >>, url |-> <<" ">>, published_at |-> << >>]

ContractSources == { << >>, <<Source1>>, <<Source2, Source1>>, <<BlankSource>> }

ContractInit ==
    /\ fn_in \in [text : ContractTexts]
    /\ fn_out = None
    /\ enabled = TRUE
    /\ DispatcherInit
    /\ GhostIdle
    /\ MemoryIdle
    /\ TokenIdle

\* one more application, to the text given or to the text the last one
\* returned, at a later time and with any source list
EnforceCall ==
    \E sources \in ContractSources :
    \E text \in {IF fn_out = None THEN fn_in.text ELSE fn_out.text} :
    \E applied \in {IF fn_out = None THEN 0 ELSE fn_out.applied} :
        /\ applied < MaxApplications
        /\ fn_out' = [text |-> _enforce_temporal_output_contract(text, sources, now),
                      applied |-> applied + 1]
        /\ now' = now + 1
        /\ UNCHANGED fn_in
        /\ UNCHANGED <<enabled, rt_cache, cacheVars, processVars, cacheGhost, memoryVars>>

ContractNext == EnforceCall

SpecContract == ContractInit /\ [][ContractNext]_vars

(***************************************************************************)
(* MemorySystem and the assistant that writes to it                        *)
(***************************************************************************)

MaxUuids == 3

Users == {"u1", "u2"}

NoSession == 0

uuid4_Repeats(drawn) == 1

\* uuid.uuid4() never repeats: a value is named by how many were drawn before it
uuid4(drawn) == drawn + 1

\* _extract_topics, lines 467-499
tech_keywords == {
    <<"p", "y", "t", "h", "o", "n">>, <<"j", "a", "v", "a", "s", "c", "r", "i", "p", "t">>, <<"t", "y", "p", "e", "s", "c", "r", "i", "p", "t">>, <<"j", "a", "v", "a">>, <<"c", "#">>,
    <<"g", "o">>, <<"r", "u", "s", "t">>, <<"p", "h", "p">>, <<"r", "u", "b", "y">>, <<"s", "w", "i", "f", "t">>,
    <<"k", "o", "t", "l", "i", "n">>, <<"s", "q", "l">>, <<"f", "a", "s", "t", "a", "p", "i">>, <<"d", "j", "a", "n", "g", "o">>, <<"f", "l", "a", "s", "k">>,
    <<"e", "x", "p", "r", "e", "s", "s">>, <<"n", "e", "s", "t", "j", "s">>, <<"s", "p", "r", "i", "n", "g">>, <<"r", "a", "i", "l", "s">>, <<".", "n", "e", "t">>,
    <<"l", "a", "r", "a", "v", "e", "l">>, <<"r", "e", "a", "c", "t">>, <<"v", "u", "e">>, <<"a", "n", "g", "u", "l", "a", "r">>, <<"n", "e", "x", "t", "j", "s">>,
    <<"s", "v", "e", "l", "t", "e">>, <<"s", "o", "l", "i", "d">>, <<"p", "o", "s", "t", "g", "r", "e", "s", "q", "l">>, <<"m", "y", "s", "q", "l">>, <<"m", "o", "n", "g", "o", "d", "b">>,
    <<"r", "e", "d", "i", "s">>, <<"s", "q", "l", "i", "t", "e">>, <<"d", "y", "n", "a", "m", "o", "d", "b">>, <<"c", "a", "s", "s", "a", "n", "d", "r", "a">>, <<"d", "o", "c", "k", "e", "r">>,
    <<"k", "u", "b", "e", "r", "n", "e", "t", "e", "s">>, <<"a", "w", "s">>, <<"a", "z", "u", "r", "e">>, <<"g", "c", "p">>, <<"t", "e", "r", "r", "a", "f", "o", "r", "m">>,
    <<"a", "n", "s", "i", "b", "l", "e">>, <<"j", "e", "n", "k", "i", "n", "s">>, <<"g", "i", "t", "h", "u", "b", " ", "a", "c", "t", "i", "o", "n", "s">>, <<"c", "i", "/", "c", "d">>, <<"a", "p", "i">>,
    <<"r", "e", "s", "t">>, <<"g", "r", "a", "p", "h", "q", "l">>, <<"w", "e", "b", "s", "o", "c", "k", "e", "t">>, <<"m", "i", "c", "r", "o", "s", "e", "r", "v", "i", "c", "e", "s">>, <<"m", "o", "n", "o", "l", "i", "t", "h">>,
    <<"s", "e", "r", "v", "e", "r", "l", "e", "s", "s">>, <<"a", "s", "y", "n", "c">>, <<"s", "y", "n", "c">>, <<"o", "r", "m">>, <<"c", "a", "c", "h", "e">>,
    <<"q", "u", "e", "u", "e">>, <<"p", "u", "b", "/", "s", "u", "b">>, <<"e", "v", "e", "n", "t", "-", "d", "r", "i", "v", "e", "n">>, <<"b", "u", "g">>, <<"e", "r", "r", "o">>,
    <<"e", "x", "c", "e", "p", "t", "i", "o", "n">>, <<"c", "r", "a", "s", "h">>, <<"t", "i", "m", "e", "o", "u", "t">>, <<"d", "e", "a", "d", "l", "o", "c", "k">>, <<"m", "e", "m", "o", "r", "y", " ", "l", "e", "a", "k">>,
    <<"p", "e", "r", "f", "o", "r", "m", "a", "n", "c", "e">>, <<"l", "a", "t", "e", "n", "c", "y">>, <<"b", "o", "t", "t", "l", "e", "n", "e", "c", "k">>, <<"d", "e", "p", "l", "o", "y">>, <<"d", "e", "p", "l", "o", "y", "m", "e", "n", "t">>,
    <<"m", "i", "g", "r", "a", "t", "i", "o", "n">>, <<"r", "e", "f", "a", "c", "t", "o", "r">>, <<"d", "e", "b", "u", "g">>, <<"t", "e", "s", "t">>, <<"t", "e", "s", "t", "i", "n", "g">>,
    <<"c", "i">>, <<"c", "d">>, <<"m", "o", "n", "i", "t", "o", "r", "i", "n", "g">>, <<"l", "o", "g", "g", "i", "n", "g">> }

\* FactCategory, lines 29-36: the categories _extract_and_save_facts looks for
FactCategories == {"tech_stack", "project", "preference", "learning", "problem"}

\* _extract_and_save_facts, lines 520-541
fact_patterns ==
    [ tech_stack |-> {
          <<"u", "s", "o">>,
          <<"t", "r", "a", "b", "a", "l", "h", "o", " ", "c", "o", "m">>,
          <<"p", "r", "o", "g", "r", "a", "m", "o", " ", "e", "m">>,
          <<"d", "e", "s", "e", "n", "v", "o", "l", "v", "o", " ", "e", "m">>,
          <<"m", "e", "u", " ", "s", "t", "a", "c", "k">>,
          <<"t", "e", "c", "n", "o", "l", "o", "g", "i", "a", "s", " ", "q", "u", "e", " ", "u", "s", "o">> },
      project |-> {
          <<"e", "s", "t", "o", "u", " ", "f", "a", "z", "e", "n", "d", "o">>,
          <<"t", "r", "a", "b", "a", "l", "h", "a", "n", "d", "o", " ", "e", "m">>,
          <<"p", "r", "o", "j", "e", "t", "o">>,
          <<"a", "p", "l", "i", "c", "a", "ç", "ã", "o">>,
          <<"s", "i", "s", "t", "e", "m", "a", " ", "q", "u", "e">>,
          <<"d", "e", "s", "e", "n", "v", "o", "l", "v", "e", "n", "d", "o">> },
      preference |-> {
          <<"p", "r", "e", "f", "i", "r", "o">>,
          <<"g", "o", "s", "t", "o", " ", "d", "e">>,
          <<"n", "ã", "o", " ", "g", "o", "s", "t", "o">>,
          <<"m", "e", "l", "h", "o", "r", " ", "u", "s", "a", "r">>,
          <<"c", "o", "s", "t", "u", "m", "o", " ", "u", "s", "a", "r">>,
          <<"s", "e", "m", "p", "r", "e", " ", "u", "s", "o">> },
      learning |-> {
          <<"e", "s", "t", "u", "d", "a", "n", "d", "o">>,
          <<"a", "p", "r", "e", "n", "d", "e", "n", "d", "o">>,
          <<"c", "u", "r", "s", "o", " ", "d", "e">>,
          <<"t", "u", "t", "o", "r", "i", "a", "l">>,
          <<"q", "u", "e", "r", "o", " ", "a", "p", "r", "e", "n", "d", "e", "r">>,
          <<"v", "o", "u", " ", "e", "s", "t", "u", "d", "a", "r">> },
      problem |-> {
          <<"s", "e", "m", "p", "r", "e", " ", "d", "á", " ", "e", "r", "r", "o">>,
          <<"p", "r", "o", "b", "l", "e", "m", "a", " ", "r", "e", "c", "o", "r", "r", "e", "n", "t", "e">>,
          <<"t", "o", "d", "o", " ", "v", "e", "z">>,
          <<"n", "ã", "o", " ", "c", "o", "n", "s", "i", "g", "o">>,
          <<"d", "i", "f", "i", "c", "u", "l", "d", "a", "d", "e", " ", "c", "o", "m">> } ]

\* _is_solution, lines 568-572
solution_indicators == {
    <<"f", "u", "n", "c", "i", "o", "n", "a", " ", "a", "s", "s", "i", "m">>, <<"s", "o", "l", "u", "ç", "ã", "o">>, <<"c", "o", "r", "r", "e", "ç", "ã", "o">>,
    <<"f", "i", "x">>, <<"p", "a", "r", "a", " ", "r", "e", "s", "o", "l", "v", "e", "r">>, <<"b", "a", "s", "t", "a">>,
    <<"v", "o", "c", "ê", " ", "p", "o", "d", "e">>, <<"r", "e", "c", "o", "m", "e", "n", "d", "o">>, <<"s", "u", "g", "e", "s", "t", "ã", "o">>,
    <<"t", "e", "n", "t", "e">> }

\* the file was never written, holds a JSON document, or holds the start of one
NoFile == [kind |-> "absent"]

Torn == [kind |-> "torn"]

JsonFile(data) == [kind |-> "json", data |-> data]

SetToList(S) == CHOOSE s \in [1..Cardinality(S) -> S] : Range(s) = S

Put(d, k, v) == [x \in DOMAIN d \cup {k} |-> IF x = k THEN v ELSE d[x]]

PlainText == <<"o", "k">>

FactText == <<"P", "r", "e", "f", "i", "r", "o", " ", "P", "y", "t", "h", "o", "n", ",", " ", "e", "s", "t", "u", "d", "a", "n", "d", "o", " ", "R", "u", "s", "t">>

SolutionText == <<"T", "e", "n", "t", "e", " ", "o", " ", "f", "i", "x">>

\* pieces of user texts: with a preference trigger, with a preference
\* trigger that holds a tech_stack trigger, with a learning trigger, with
\* triggers of three more categories
FactPieces == {
    <<"P", "r", "e", "f", "i", "r", "o", " ">>,
    <<"S", "e", "m", "p", "r", "e", " ", "u", "s", "o", " ">>,
    <<"e", "s", "t", "u", "d", "a", "n", "d", "o", " ">>,
    <<"T", "U", "T", "O", "R", "I", "A", "L", " ", "d", "o", " ", "p", "r", "o", "j", "e", "t", "o", ",", " ", "n", "ã", "o", " ", "c", "o", "n", "s", "i", "g", "o", " ">> }

FactTexts == {first \o second : first \in FactPieces, second \in FactPieces}

\* the texts of the turns written
Texts == {PlainText, FactText, SolutionText, DeepQuestion, DeepQuestionAgain} \cup FactTexts

_extract_topics(text) ==
    LET text_lower == Lower(text)
    IN  {keyword \in tech_keywords : Contains(text_lower, keyword)}

\* _extract_topics of each text, computed once
TopicsOf == [text \in Texts |-> _extract_topics(text)]

MatchedPatterns(category, text_lower) ==
    {pattern \in fact_patterns[category] : Contains(text_lower, pattern)}

FactsSaved_NoBreak(category, text) ==
    Cardinality(MatchedPatterns(category, Lower(text)))

\* the loop over one category's patterns, which stops at the first match
FactsSaved(category, text) ==
    IF MatchedPatterns(category, Lower(text)) # {} THEN 1 ELSE 0

\* FactsSaved of each text, computed once
FactsOf == [text \in Texts |-> [category \in FactCategories |-> FactsSaved(category, text)]]

\* the user's facts, counted by category, after the loop over the categories
_extract_and_save_facts(facts, text) ==
    [category \in FactCategories |-> facts[category] + FactsOf[text][category]]

_is_solution(text) ==
    LET text_lower == Lower(text)
    IN  \E indicator \in solution_indicators : Contains(text_lower, indicator)

\* _is_solution of each text, computed once
SolutionIn == [text \in Texts |-> _is_solution(text)]

\* json.dump rejects a set: asdict leaves each message's topics a set, and
\* only the session's own topics are turned into a list
JsonSerializable(session) == session.messages = << >>

\* the content of the file after _save_active_sessions: the file is opened
\* for writing, which empties it, and json.dump writes until it fails
_save_active_sessions(sessions) ==
    IF \A sid \in DOMAIN sessions : JsonSerializable(sessions[sid])
        THEN JsonFile([sid \in DOMAIN sessions |-> [sessions[sid] EXCEPT !.topics = SetToList(@)]])
        ELSE Torn

_load_active_sessions(file) ==
    IF file.kind = "json"
        THEN [sid \in DOMAIN file.data |-> [file.data[sid] EXCEPT !.topics = Range(@)]]
        ELSE EmptyDict

\* the state of a MemorySystem and of its storage directory
MemoryState ==
    [active_sessions |-> active_sessions, sessions_file |-> sessions_file,
     conversations |-> conversations, user_facts |-> user_facts,
     solutions |-> solutions, uuids |-> uuids]

Returns(m, value) == [m |-> m, raised |-> "none", returned |-> value]

Raises(m, error) == [m |-> m, raised |-> error, returned |-> None]

NewSession(id, user_id) ==
    [id |-> id, user_id |-> user_id, messages |-> << >>, topics |-> {},
     reasoning_count |-> 0, total_turns |-> 0]

create_session(m, user_id) ==
    LET id == uuid4(m.uuids)
        sessions == Put(m.active_sessions, id, NewSession(id, user_id))
    IN  Returns([m EXCEPT !.active_sessions = sessions,
                          !.sessions_file = _save_active_sessions(sessions),
                          !.uuids = @ + 1], id)

AppendTurn_NoCount(session, turn) ==
    [session EXCEPT !.messages = Append(@, turn),
                    !.topics = @ \cup turn.topics,
                    !.reasoning_count = IF turn.reasoning_used THEN @ + 1 ELSE @]

\* lines 185-189
AppendTurn(session, turn) ==
    [session EXCEPT !.messages = Append(@, turn),
                    !.topics = @ \cup turn.topics,
                    !.total_turns = @ + 1,
                    !.reasoning_count = IF turn.reasoning_used THEN @ + 1 ELSE @]

StoreWrites == {"ok", "conversations", "user_facts", "solutions"}

StoreError_RollsBack(before, after) == Raises(before, "Exception")

\* a collection's add raises and nothing catches it: add_turn ends there,
\* with what it had done
StoreError(before, after) == Raises(after, "Exception")

\* an id that is not in the registry is opened instead of refused
add_turn_OpensMissing(m, sid, role, text, reasoning_used, fails) ==
    Returns([m EXCEPT !.active_sessions = Put(@, sid, NewSession(sid, CHOOSE user_id \in Users : TRUE))], sid)

\* fails names the collection whose add raises, if any
add_turn(m, sid, role, text, reasoning_used, fails) ==
    IF sid \notin DOMAIN m.active_sessions THEN Raises(m, "ValueError")
    ELSE
    LET user_id == m.active_sessions[sid].user_id
        turn_id == uuid4(m.uuids)
        turn == [id |-> turn_id, session_id |-> sid, user_id |-> user_id,
                 role |-> role, text |-> text, topics |-> TopicsOf[text],
                 reasoning_used |-> reasoning_used]
        appended == [m EXCEPT !.active_sessions[sid] = AppendTurn(@, turn),
                              !.uuids = @ + 1]
        stored == [appended EXCEPT !.conversations[user_id] = @ + 1]
        saves_facts == role = "user" /\ \E category \in FactCategories : FactsOf[text][category] > 0
        with_facts == IF role = "user"
                        THEN [stored EXCEPT !.user_facts[user_id] = _extract_and_save_facts(@, text)]
                        ELSE stored
        saves_solution == role = "assistant" /\ SolutionIn[text]
        with_solution == IF saves_solution
                           THEN [with_facts EXCEPT !.solutions[user_id] = @ + 1]
                           ELSE with_facts
    IN  IF fails = "conversations" THEN StoreError(m, appended)
        ELSE IF fails = "user_facts" /\ saves_facts THEN StoreError(m, stored)
        ELSE IF fails = "solutions" /\ saves_solution THEN StoreError(m, with_facts)
        ELSE Returns([with_solution EXCEPT !.sessions_file = _save_active_sessions(with_solution.active_sessions)],
                     turn_id)

end_session_AlwaysSaves(m, sid) ==
    LET sessions == Restrict(m.active_sessions, DOMAIN m.active_sessions \ {sid})
    IN  Returns([m EXCEPT !.active_sessions = sessions,
                          !.sessions_file = _save_active_sessions(sessions)], None)

end_session(m, sid) ==
    IF sid \notin DOMAIN m.active_sessions THEN Returns(m, None)
    ELSE LET sessions == Restrict(m.active_sessions, DOMAIN m.active_sessions \ {sid})
         IN  Returns([m EXCEPT !.active_sessions = sessions,
                               !.sessions_file = _save_active_sessions(sessions)], None)

\* a query returns at most n_results of the documents that match
Query(count, n_results) == Min(count, n_results)

ClearQueryLimit == 10000

MessagesStatsLimit == 10000

FactsStatsLimit == 1000

SolutionsStatsLimit == 1000

TotalFacts(facts) ==
    facts.tech_stack + facts.project + facts.preference + facts.learning + facts.problem

NoFacts == [category \in FactCategories |-> 0]

\* the facts that may be left when `found` of them are deleted
FactsLeft(facts, found) ==
    IF found = TotalFacts(facts) THEN {NoFacts}
    ELSE {left \in [FactCategories -> 0..(TotalFacts(facts) - found)] :
              /\ \A category \in FactCategories : left[category] <= facts[category]
              /\ TotalFacts(left) = TotalFacts(facts) - found}

\* fails names the collection whose query raises, if any
get_user_stats(m, user_id, fails) ==
    IF fails # "ok" THEN EmptyDict
    ELSE [total_messages |-> Query(m.conversations[user_id], MessagesStatsLimit),
          total_facts |-> Query(TotalFacts(m.user_facts[user_id]), FactsStatsLimit),
          total_solutions |-> Query(m.solutions[user_id], SolutionsStatsLimit)]

\* the user the assistant serves
AssistantUser == "u1"

_ensure_memory_session_NoRecreate(m, sid) == [m |-> m, session_id |-> sid]

\* agent.py, lines 335-346 (the assistant has a memory and is not shutting down)
_ensure_memory_session(m, sid) ==
    IF sid # NoSession /\ sid \in DOMAIN m.active_sessions
        THEN [m |-> m, session_id |-> sid]
        ELSE LET created == create_session(m, AssistantUser)
             IN  [m |-> created.m, session_id |-> created.returned]

\* one turn of the loop of lines 359-380
TryAddTurn(m, sid, role, text, reasoning_used, fails) ==
    LET ensured == _ensure_memory_session(m, sid)
        added == add_turn(ensured.m, ensured.session_id, role, text, reasoning_used, fails)
    IN  [m |-> added.m,
         session_id |-> IF added.raised = "ValueError" THEN NoSession ELSE ensured.session_id,
         raised |-> added.raised]

\* the loop also goes round again after a failure of the store
_safe_memory_add_turn_RetriesStoreError(m, sid, role, text, reasoning_used, fails) ==
    LET first == TryAddTurn(m, sid, role, text, reasoning_used, fails)
        second == TryAddTurn(first.m, first.session_id, role, text, reasoning_used, fails)
    IN  IF first.raised = "none" THEN [m |-> first.m, session_id |-> first.session_id, raised |-> "none", logged |-> "none"]
        ELSE [m |-> second.m, session_id |-> second.session_id, raised |-> "none", logged |-> first.raised]

\* agent.py, lines 348-382: what it leaves and what it logs; it never raises
_safe_memory_add_turn(m, sid, role, text, reasoning_used, fails) ==
    LET first == TryAddTurn(m, sid, role, text, reasoning_used, fails)
        second == TryAddTurn(first.m, first.session_id, role, text, reasoning_used, fails)
    IN  IF first.raised = "none" THEN [m |-> first.m, session_id |-> first.session_id, raised |-> "none", logged |-> "none"]
        ELSE IF first.raised = "Exception" THEN [m |-> first.m, session_id |-> first.session_id, raised |-> "none", logged |-> "Exception"]
        ELSE IF second.raised = "none" THEN [m |-> second.m, session_id |-> second.session_id, raised |-> "none", logged |-> "ValueError"]
        ELSE IF second.raised = "Exception" THEN [m |-> second.m, session_id |-> second.session_id, raised |-> "none", logged |-> "Exception"]
        ELSE [m |-> second.m, session_id |-> second.session_id, raised |-> "none", logged |-> "gave up"]

(***************************************************************************)
(* The operations of the memory, one action each                           *)
(***************************************************************************)

\* the turns written: role, text, reasoning_used
TurnInputs == {
    <<"user", PlainText, FALSE>>,
    <<"user", FactText, TRUE>>,
    <<"assistant", FactText, FALSE>>,
    <<"assistant", SolutionText, TRUE>> }

SessionIds == 1..MaxUuids

Becomes(m) ==
    /\ active_sessions' = m.active_sessions
    /\ sessions_file' = m.sessions_file
    /\ conversations' = m.conversations
    /\ user_facts' = m.user_facts
    /\ solutions' = m.solutions
    /\ uuids' = m.uuids

\* what the operations of the memory leave alone
dispatcherVars == <<gateVars, cacheVars, processVars, cacheGhost, fnVars, agentVars, tokenVars>>

\* MemorySystem() over a new storage directory
MemoryInit ==
    /\ active_sessions = EmptyDict
    /\ sessions_file = NoFile
    /\ conversations = [user_id \in Users |-> 0]
    /\ user_facts = [user_id \in Users |-> NoFacts]
    /\ solutions = [user_id \in Users |-> 0]
    /\ session_id = NoSession
    /\ uuids = 0
    /\ mem_op = NoMemOp
    /\ AgentIdle
    /\ TokenIdle
    /\ enabled = TRUE
    /\ DispatcherInit
    /\ GhostIdle
    /\ FnIdle

CreateSession(user_id) ==
    /\ uuids < MaxUuids
    /\ \E done \in {create_session(MemoryState, user_id)} :
        /\ Becomes(done.m)
        /\ mem_op' = [op |-> "create_session", user_id |-> user_id, returned |-> done.returned]
    /\ UNCHANGED <<session_id, dispatcherVars>>

AddTurn(sid, role, text, reasoning_used, fails) ==
    /\ uuids < MaxUuids
    /\ \E done \in {add_turn(MemoryState, sid, role, text, reasoning_used, fails)} :
        /\ Becomes(done.m)
        /\ mem_op' = [op |-> "add_turn", session_id |-> sid, role |-> role, text |-> text,
                      store_failed |-> done.raised = "Exception", raised |-> done.raised]
    /\ UNCHANGED <<session_id, dispatcherVars>>

EndSession(sid) ==
    /\ \E done \in {end_session(MemoryState, sid)} :
        /\ Becomes(done.m)
        /\ mem_op' = [op |-> "end_session", session_id |-> sid, raised |-> done.raised]
    /\ UNCHANGED <<session_id, dispatcherVars>>

\* lines 667-688: a collection whose query raises is left as it is
ClearUserData(user_id, fails) ==
    /\ conversations' =
           IF fails = "conversations" THEN conversations
           ELSE [conversations EXCEPT ![user_id] = @ - Query(@, ClearQueryLimit)]
    /\ user_facts' \in
           IF fails = "user_facts" THEN {user_facts}
           ELSE {[user_facts EXCEPT ![user_id] = left] :
                    left \in FactsLeft(user_facts[user_id], Query(TotalFacts(user_facts[user_id]), ClearQueryLimit))}
    /\ solutions' =
           IF fails = "solutions" THEN solutions
           ELSE [solutions EXCEPT ![user_id] = @ - Query(@, ClearQueryLimit)]
    /\ mem_op' = [op |-> "clear_user_data", user_id |-> user_id, fails |-> fails]
    /\ UNCHANGED <<active_sessions, sessions_file, session_id, uuids, dispatcherVars>>

GetUserStats(user_id, fails) ==
    /\ mem_op' = [op |-> "get_user_stats", user_id |-> user_id, fails |-> fails,
                  returned |-> get_user_stats(MemoryState, user_id, fails)]
    /\ UNCHANGED <<active_sessions, sessions_file, storeVars, session_id, uuids, dispatcherVars>>

\* the process ends and MemorySystem() is constructed again, lines 110-112
Restart ==
    /\ active_sessions' = _load_active_sessions(sessions_file)
    /\ session_id' = NoSession
    /\ mem_op' = [op |-> "restart"]
    /\ UNCHANGED <<sessions_file, storeVars, uuids, dispatcherVars>>

\* OptimizedAssistant.__init__, agent.py lines 239-243
AssistantStart(requested) ==
    /\ uuids < MaxUuids
    /\ \E loaded \in {[MemoryState EXCEPT !.active_sessions = _load_active_sessions(sessions_file)]} :
        IF requested # NoSession /\ requested \in DOMAIN loaded.active_sessions
            THEN /\ Becomes(loaded)
                 /\ session_id' = requested
            ELSE \E done \in {create_session(loaded, AssistantUser)} :
                 /\ Becomes(done.m)
                 /\ session_id' = done.returned
    /\ mem_op' = [op |-> "assistant_start", requested |-> requested]
    /\ UNCHANGED dispatcherVars

SafeMemoryAddTurn(role, text, reasoning_used, fails) ==
    /\ session_id # NoSession
    /\ uuids + 2 <= MaxUuids
    /\ \E done \in {_safe_memory_add_turn(MemoryState, session_id, role, text, reasoning_used, fails)} :
        /\ Becomes(done.m)
        /\ session_id' = done.session_id
        /\ mem_op' = [op |-> "_safe_memory_add_turn", session_id |-> session_id, role |-> role,
                      text |-> text, raised |-> done.raised, logged |-> done.logged]
    /\ UNCHANGED dispatcherVars

MemoryNext ==
    \/ \E user_id \in Users : CreateSession(user_id)
    \/ \E sid \in SessionIds, turn \in TurnInputs, fails \in StoreWrites :
          AddTurn(sid, turn[1], turn[2], turn[3], fails)
    \/ \E sid \in SessionIds : EndSession(sid)
    \/ Restart
    \/ \E requested \in {NoSession} \cup SessionIds : AssistantStart(requested)
    \/ \E turn \in TurnInputs, fails \in StoreWrites :
          SafeMemoryAddTurn(turn[1], turn[2], turn[3], fails)

SpecMemory == MemoryInit /\ [][MemoryNext]_vars

(***************************************************************************)
(* The collections of a user: MemorySystem() over a storage directory      *)
(* that earlier runs have filled                                           *)
(***************************************************************************)

\* the turns a user has in the conversations collection at the start
StoredTurns == {0, ClearQueryLimit}

PurgeInit ==
    /\ active_sessions = EmptyDict
    /\ sessions_file = NoFile
    /\ conversations \in [Users -> StoredTurns]
    /\ user_facts = [user_id \in Users |-> NoFacts]
    /\ solutions = [user_id \in Users |-> 0]
    /\ session_id = NoSession
    /\ uuids = 0
    /\ mem_op = NoMemOp
    /\ AgentIdle
    /\ TokenIdle
    /\ enabled = TRUE
    /\ DispatcherInit
    /\ GhostIdle
    /\ FnIdle

PurgeNext ==
    \/ \E user_id \in Users : CreateSession(user_id)
    \/ \E sid \in SessionIds, turn \in TurnInputs, fails \in StoreWrites :
          AddTurn(sid, turn[1], turn[2], turn[3], fails)
    \/ \E user_id \in Users, fails \in StoreWrites : ClearUserData(user_id, fails)
    \/ \E user_id \in Users, fails \in StoreWrites : GetUserStats(user_id, fails)

SpecPurge == PurgeInit /\ [][PurgeNext]_vars

(***************************************************************************)
(* The facts saved from the turns of a session                             *)
(***************************************************************************)

\* role, text, reasoning_used
FactTurns ==
    {<<"user", text, FALSE>> : text \in FactTexts \cup {PlainText}}
        \cup {<<role, FactText, FALSE>> : role \in {"assistant", "system"}}

FactsNext ==
    \/ CreateSession(AssistantUser)
    \/ \E sid \in SessionIds, turn \in FactTurns :
          AddTurn(sid, turn[1], turn[2], turn[3], "ok")

SpecFacts == MemoryInit /\ [][FactsNext]_vars

(***************************************************************************)
(* Claims about process                                                    *)
(***************************************************************************)

\* a step of process (the clock stands still during a call)
ProcessStep == now' = now

Returned == call # None

StartsWith(t, w) == Len(w) <= Len(t) /\ SubSeq(t, 1, Len(w)) = w

\* some line of the text is an item of a numbered list
HasEnumeratedSources(text) ==
    \E i \in 1..(Len(text) - 2) :
        /\ i = 1 \/ text[i - 1] = "\n"
        /\ IsDigit(text[i])
        /\ text[i + 1] = "."
        /\ text[i + 2] = " "

\* C1: when the request is time-sensitive and the freshness gate yields no
\* snippets (an empty context, or a fetch that raises), the provider is not
\* called and the result has confidence 0.35, the marker 'Status: nao
\* verificado' and 'Fontes: indisponiveis', with no enumerated source list.
C1_UnverifiedWithoutProvider ==
    (Returned /\ trace.time_sensitive /\ trace.sources = << >>) =>
        /\ trace.generations = << >>
        /\ ret.confidence = 35
        /\ Contains(ret.text, <<"S", "t", "a", "t", "u", "s", ":", " ", "n", "a", "o", " ", "v", "e", "r", "i", "f", "i", "c", "a", "d", "o">>)
        /\ Contains(ret.text, <<"F", "o", "n", "t", "e", "s", ":", " ", "i", "n", "d", "i", "s", "p", "o", "n", "i", "v", "e", "i", "s">>)
        /\ ~HasEnumeratedSources(ret.text)

C1_Witness ==
    /\ Returned
    /\ trace.time_sensitive
    /\ trace.fetched
    /\ trace.fetch_raised
    /\ trace.sources = << >>
    /\ ret.confidence = 35

\* the entries of the cache after a step that the step wrote or changed
Written(before, after) ==
    {i \in 1..Len(after) : ~\E j \in 1..Len(before) : before[j] = after[i]}

\* C2: after any sequence of process calls, every entry of the ResponseCache
\* was written by a request that had no forced mode, was not time-sensitive
\* and produced a result with confidence > 0.7; the apology result
\* (confidence 0) and the unverified result (confidence 0.35) are never in
\* the cache.
C2_CacheWrittenByEligibleRequests ==
    [][ /\ \A i \in Written(cache, cache') :
               /\ call'.force_mode = NoMode
               /\ ~should_search(enabled, call'.user_input)
               /\ ret'.confidence > 70
               /\ cache'[i].key = _hash_key(call'.user_input)
               /\ cache'[i].result = ret'
        /\ \A i \in 1..Len(cache') :
               /\ cache'[i].result.confidence > 70
               /\ cache'[i].result.text # ApologyText
               /\ ~Contains(cache'[i].result.text, <<"S", "t", "a", "t", "u", "s", ":", " ", "n", "a", "o", " ", "v", "e", "r", "i", "f", "i", "c", "a", "d", "o">>) ]_vars

C2_Witness ==
    /\ Returned
    /\ Len(cache) = 2
    /\ trace.time_sensitive
    /\ ret.confidence = 35

\* the cache but for the latency field of its results
Stored(c) == [i \in 1..Len(c) |-> [key |-> c[i].key, result |-> Timed(c[i].result, 0)]]

\* C3: for a request with no forced mode that is not time-sensitive and whose
\* fingerprint is in the ResponseCache, the stored result is returned and none
\* of the later steps run: no freshness fetch, no provider call, no disclosure
\* step and no cache write.
C3_CacheHitSkipsEverything ==
    [][ ( /\ ProcessStep
          /\ call'.force_mode = NoMode
          /\ _hash_key(call'.user_input) \in CacheKeys(cache)
          /\ ~should_search(enabled, call'.user_input) )
        => /\ Timed(ret', 0) = Timed(ResponseCache_get(cache, call'.user_input), 0)
           /\ ~trace'.fetched
           /\ trace'.generations = << >>
           /\ ~trace'.disclosed
           /\ ~trace'.cache_written
           /\ Stored(cache') = Stored(cache)
           /\ rt_cache' = rt_cache
           /\ log_file' = log_file ]_vars

C3_Witness ==
    /\ Returned
    /\ trace.cache_hit
    /\ call.user_input = DeepQuestion
    /\ ret.mode = REASONING_DEEP
    /\ ret.execution_time_ms = CacheHitMs

FailedFirst(mode) ==
    trace.generations # << >> /\ trace.generations[1].mode = mode /\ ~trace.generations[1].ok

LastGenerationFailed ==
    trace.generations # << >> /\ ~trace.generations[Len(trace.generations)].ok

\* the provider calls of the last request are a FAST call, or a DEEP call
\* followed, only when it failed, by one FAST call
OneFallbackLevel ==
    \/ trace.generations = << >>
    \/ Len(trace.generations) = 1 /\ trace.generations[1].mode = VOICE_FAST
    \/ Len(trace.generations) = 1 /\ trace.generations[1].mode = REASONING_DEEP
                                  /\ trace.generations[1].ok
    \/ /\ Len(trace.generations) = 2
       /\ FailedFirst(REASONING_DEEP)
       /\ trace.generations[2].mode = VOICE_FAST

\* C4 as stated: on provider failure process does not raise; a DEEP failure is
\* followed by exactly one FAST generation and nothing more; when the FAST
\* generation fails the result is the fixed apology text with mode FAST and
\* confidence 0.
C4_Original ==
    Returned =>
        /\ OneFallbackLevel
        /\ LastGenerationFailed =>
               /\ ret.text = ApologyText
               /\ ret.mode = VOICE_FAST
               /\ ret.confidence = 0

\* C4 amended: as stated, but the text of the result is the fixed apology
\* text alone only when the request is not time-sensitive; for a
\* time-sensitive request the disclosure block follows the apology.
C4_ApologyAfterOneFallback ==
    Returned =>
        /\ OneFallbackLevel
        /\ LastGenerationFailed =>
               /\ StartsWith(ret.text, ApologyText)
               /\ ~trace.time_sensitive => ret.text = ApologyText
               /\ trace.time_sensitive => Contains(ret.text, StatusField)
               /\ ret.mode = VOICE_FAST
               /\ ret.confidence = 0

C4_Witness ==
    /\ Returned
    /\ Len(trace.generations) = 2
    /\ FailedFirst(REASONING_DEEP)
    /\ LastGenerationFailed
    /\ ret.text = ApologyText

ReportsVerified(text) == Contains(text, <<"S", "t", "a", "t", "u", "s", ":", " ", "v", "e", "r", "i", "f", "i", "c", "a", "d", "o">>)

C6_CacheWithinCapacity == Len(cache) <= max_size

C6_Witness ==
    /\ cache_op.op = "set"
    /\ Len(cache) = max_size
    /\ \A k \in DOMAIN inserted_at : inserted_at[k] > 1

\* the key inserted earliest among those present
Earliest(stamps) == {k \in DOMAIN stamps : \A other \in DOMAIN stamps : stamps[k] <= stamps[other]}

\* the keys that a set of a new key would evict from a cache that is full
FreshText == <<"f", "r", "e", "s", "h">>

NextEvicted(c) ==
    IF c = << >> THEN {}
    ELSE CacheKeys(c) \ CacheKeys(ResponseCache_set(c, Len(c), FreshText, CHOOSE r \in CacheResults : TRUE))

\* C7: when set is called with the cache at capacity, the entry removed is the
\* one whose key was inserted earliest among those present; get never changes
\* which entry is evicted next.
C7_EvictionIsFifo ==
    [][ /\ (cache_op'.op = "set" /\ Len(cache) >= max_size) =>
               /\ CacheKeys(cache) \ DOMAIN inserted_at' \subseteq Earliest(inserted_at)
               /\ \A k \in Earliest(inserted_at) :
                      k \in DOMAIN inserted_at' => inserted_at'[k] = clock'
        /\ cache_op'.op = "set" =>
               /\ DOMAIN inserted_at' = CacheKeys(cache')
               /\ NextEvicted(cache') = Earliest(inserted_at')
        /\ cache_op'.op = "get" => NextEvicted(cache') = NextEvicted(cache) ]_vars

C7_Witness ==
    /\ cache_op.op = "get"
    /\ cache_op.returned # None
    /\ Len(cache) = max_size
    /\ max_size = 2
    /\ NextEvicted(cache) = {_hash_key(cache_op.user_input)}

(***************************************************************************)
(* Claims about the score and the mode                                     *)
(***************************************************************************)

Debug == <<"d", "e", "b", "u", "g">>

\* the input has a code fence and the keyword 'debug' and no other scoring feature
FenceAndDebugOnly(t) ==
    /\ Contains(t, CodeFence)
    /\ \A k \in 1..Len(critical_keywords) :
           Contains(Lower(t), critical_keywords[k]) <=> critical_keywords[k] = Debug
    /\ WordCount(t) <= LongTextWords
    /\ CountChar(t, "?") <= ManyQuestions

\* C8 as stated: a fenced code block plus the keyword 'debug' and no other
\* scoring feature scores at least 8 and is dispatched in DEEP mode.
C8_Original ==
    (fn_out # None /\ FenceAndDebugOnly(fn_in.user_input))
        => (fn_out.complexity_score >= 8 /\ fn_out.mode = REASONING_DEEP)

\* C8 amended: a fenced code block plus the keyword 'debug' and no other
\* scoring feature scores exactly 7 (4 + 3), below the threshold of 8, and is
\* dispatched in FAST mode.
C8_FenceAndDebugIsFast ==
    (fn_out # None /\ FenceAndDebugOnly(fn_in.user_input))
        => (fn_out.complexity_score = 7 /\ fn_out.mode = VOICE_FAST)

C8_Witness ==
    /\ fn_out # None
    /\ fn_in.user_input = Debug \o <<" ">> \o CodeFence
    /\ FenceAndDebugOnly(fn_in.user_input)

\* the score as the claim words it
ClaimedScore(t) ==
    3 * Cardinality({k \in 1..Len(critical_keywords) : Contains(Lower(t), critical_keywords[k])})
    + (IF Contains(t, CodeFence) THEN 4 ELSE 0)
    + (IF WordCount(t) > 60 THEN 3 ELSE 0)
    + (IF CountChar(t, "?") > 2 THEN 3 ELSE 0)

FourDigitsAt(t, i) == i >= 1 /\ i + 3 <= Len(t) /\ \A k \in 0..3 : IsDigit(t[i + k])

YearAt(t, i) ==
    1000 * DigitValue(t[i]) + 100 * DigitValue(t[i + 1]) + 10 * DigitValue(t[i + 2]) + DigitValue(t[i + 3])

\* the text contains four consecutive digits that read as a year >= the cutoff
ContainsRecentYear(t) == \E i \in 1..Len(t) : FourDigitsAt(t, i) /\ YearAt(t, i) >= 2025

\* C10 as stated: should_search is true for every input that contains a
\* 4-digit year >= 2025, whatever else it contains and whatever the
\* configuration of the gate.
C10_Original ==
    (fn_out # None /\ ContainsRecentYear(fn_in.user_input)) => fn_out.should_search

\* the normalized text holds a year of 2025..2099 as a number of its own: no
\* letter, digit or underscore touches it on either side
StandaloneRecentYear(t) ==
    LET text == _normalize_for_match(t)
    IN  \E i \in 1..Len(text) :
            /\ FourDigitsAt(text, i)
            /\ YearAt(text, i) >= 2025
            /\ YearAt(text, i) <= 2099
            /\ (i = 1 \/ ~IsWordChar(text[i - 1]))
            /\ (i + 3 = Len(text) \/ ~IsWordChar(text[i + 4]))

\* C10 amended: with the gate enabled, should_search is true for every input
\* whose normalized form contains a year from 2025 to 2099 standing as a
\* number of its own, whatever else the input contains.
C10_RecentYearSearches ==
    (fn_out # None /\ fn_in.enabled /\ StandaloneRecentYear(fn_in.user_input))
        => fn_out.should_search

C10_Witness ==
    /\ fn_out # None
    /\ fn_in.enabled
    /\ fn_in.user_input = <<"a", " ", "2", "0", "2", "5">>
    /\ fn_out.should_search

(***************************************************************************)
(* Claims about the disclosure                                             *)
(***************************************************************************)

HasDisclosureFields(text) ==
    /\ Contains(text, StatusField)
    /\ Contains(text, CheckedField)
    /\ Contains(text, SourcesField)

C12_DisclosureIdempotent ==
    [][ fn_out # None => fn_out'.text = fn_out.text ]_vars

C12_Witness ==
    /\ fn_out # None
    /\ fn_out.applied = MaxApplications
    /\ fn_in.text = <<"o", "k">>
    /\ Contains(fn_out.text, SourcesUnavailable)
    /\ now = MaxApplications

(***************************************************************************)
(* Claims about the memory                                                 *)
(***************************************************************************)

\* the last operation was one of MemorySystem and it returned
MemoryOpReturned(op) ==
    /\ mem_op.op = op
    /\ op = "add_turn" => mem_op.raised = "none"

\* C13: after each create_session, add_turn and end_session that returns,
\* the registry file holds the registry in memory: a MemorySystem
\* constructed at that point loads every open session with its turns,
\* its counters and its topics
C13_FileHoldsRegistry ==
    (MemoryOpReturned("create_session") \/ MemoryOpReturned("add_turn") \/ MemoryOpReturned("end_session"))
        => _load_active_sessions(sessions_file) = active_sessions

TurnKept(before, after, text) ==
    /\ Len(after.messages) = Len(before.messages) + 1
    /\ SubSeq(after.messages, 1, Len(before.messages)) = before.messages
    /\ after.messages[Len(after.messages)].text = text

C15_SecondCallSucceeds ==
    [][ (/\ mem_op.op = "add_turn"
         /\ mem_op.raised = "ValueError"
         /\ mem_op'.op = "add_turn"
         /\ mem_op'.session_id = mem_op.session_id) => mem_op'.raised = "none" ]_vars

\* C15, amended: add_turn with an id absent from the registry fails with
\* the not-found error and changes nothing, each time it is called; when
\* the assistant's session is absent from the registry,
\* _safe_memory_add_turn creates a session under a new id and adds the
\* turn to it instead of giving up
C15_NotFoundThenRecreated ==
    [][ /\ (mem_op'.op = "add_turn" /\ mem_op'.session_id \notin DOMAIN active_sessions) =>
            /\ mem_op'.raised = "ValueError"
            /\ UNCHANGED <<active_sessions, sessions_file, storeVars, uuids>>
        /\ (mem_op'.op = "_safe_memory_add_turn" /\ session_id \notin DOMAIN active_sessions) =>
            /\ mem_op'.logged # "gave up"
            /\ session_id' # session_id
            /\ session_id' \notin DOMAIN active_sessions
            /\ session_id' \in DOMAIN active_sessions'
            /\ active_sessions'[session_id'].user_id = AssistantUser
            /\ TurnKept(NewSession(session_id', AssistantUser), active_sessions'[session_id'], mem_op'.text) ]_vars

C15_Witness ==
    /\ mem_op.op = "_safe_memory_add_turn"
    /\ mem_op.session_id \notin DOMAIN active_sessions
    /\ mem_op.session_id # session_id
    /\ session_id \in DOMAIN active_sessions
    /\ active_sessions[session_id].total_turns = 1
    /\ mem_op.logged = "none"

\* C16: the total_turns of each open session is the number of its
\* messages, also after an add_turn that a failing store ended part-way
C16_TurnsCounted ==
    \A sid \in DOMAIN active_sessions :
        active_sessions[sid].total_turns = Len(active_sessions[sid].messages)

C16_Witness ==
    /\ mem_op.op = "add_turn"
    /\ mem_op.store_failed
    /\ mem_op.role = "user"
    /\ conversations[active_sessions[mem_op.session_id].user_id] = 2
    /\ active_sessions[mem_op.session_id].total_turns = 2
    /\ Len(active_sessions[mem_op.session_id].messages) = 2

\* C17: end_session never raises; on an id that is not in the registry
\* (closed before, or never opened) it leaves the registry, the file and
\* the collections as they were; and a second end_session of the same id
\* right after the first would change nothing
C17_EndSessionIdempotent ==
    [][ mem_op'.op = "end_session" =>
            /\ mem_op'.raised = "none"
            /\ mem_op'.session_id \notin DOMAIN active_sessions'
            /\ mem_op'.session_id \notin DOMAIN active_sessions =>
                   UNCHANGED <<active_sessions, sessions_file, storeVars, uuids, session_id>>
            /\ end_session(MemoryState', mem_op'.session_id) = Returns(MemoryState', None) ]_vars

C17_Witness ==
    /\ mem_op.op = "end_session"
    /\ mem_op.session_id <= uuids
    /\ active_sessions # EmptyDict
    /\ mem_op.session_id \notin DOMAIN active_sessions
    /\ sessions_file # _save_active_sessions(active_sessions)
    /\ conversations["u1"] > 0

\* C18: create_session returns an id that was not in the registry; after
\* it the registry holds, under that id, an open session of that user
\* with no turn, and every other session is as it was
C18_CreateSessionFresh ==
    [][ mem_op'.op = "create_session" =>
            /\ mem_op'.returned \notin DOMAIN active_sessions
            /\ DOMAIN active_sessions' = DOMAIN active_sessions \cup {mem_op'.returned}
            /\ active_sessions'[mem_op'.returned].user_id = mem_op'.user_id
            /\ active_sessions'[mem_op'.returned].messages = << >>
            /\ active_sessions'[mem_op'.returned].total_turns = 0
            /\ \A sid \in DOMAIN active_sessions : active_sessions'[sid] = active_sessions[sid] ]_vars

C18_Witness ==
    /\ mem_op.op = "create_session"
    /\ mem_op.user_id = "u2"
    /\ Cardinality(DOMAIN active_sessions) = 2
    /\ \E sid \in DOMAIN active_sessions :
           active_sessions[sid].user_id = "u2" /\ active_sessions[sid].total_turns = 1

(***************************************************************************)
(* Claims about the collections                                            *)
(***************************************************************************)

NoDocuments(user_id) ==
    /\ conversations[user_id] = 0
    /\ TotalFacts(user_facts[user_id]) = 0
    /\ solutions[user_id] = 0

\* C19: after clear_user_data(u), with a store that answers every call, no
\* document of u is left in the three collections, and get_user_stats(u)
\* returns zero for the three counts
C19_PurgeRemovesAll ==
    (mem_op.op = "clear_user_data" /\ mem_op.fails = "ok") =>
        /\ NoDocuments(mem_op.user_id)
        /\ get_user_stats(MemoryState, mem_op.user_id, "ok") =
               [total_messages |-> 0, total_facts |-> 0, total_solutions |-> 0]

\* the categories with a trigger phrase in the lowercased text
TriggeredIn(text) ==
    {category \in FactCategories : \E pattern \in fact_patterns[category] : Contains(Lower(text), pattern)}

\* the same for each text written, computed once
Triggered == [text \in Texts |-> TriggeredIn(text)]

\* the facts of that category an add_turn step saved for the session's user
Created(category) ==
    user_facts'[active_sessions[mem_op'.session_id].user_id][category]
        - user_facts[active_sessions[mem_op'.session_id].user_id][category]

\* an add_turn step that returned
AddTurnReturned == mem_op'.op = "add_turn" /\ mem_op'.raised = "none"

\* C20 as claimed: a user turn saves one fact for each category with a
\* trigger in the text and none for the others, whatever is stored; a
\* turn with a preference trigger and a learning trigger saves exactly two
\* facts; a turn of another role saves none
C20_FactsPerCategory ==
    [][ AddTurnReturned =>
            /\ mem_op'.role = "user" =>
                   \A category \in FactCategories :
                       Created(category) = IF category \in Triggered[mem_op'.text] THEN 1 ELSE 0
            /\ (mem_op'.role = "user" /\ {"preference", "learning"} \subseteq Triggered[mem_op'.text]) =>
                   TotalFacts(user_facts'[AssistantUser]) - TotalFacts(user_facts[AssistantUser]) = 2
            /\ mem_op'.role # "user" => user_facts' = user_facts ]_vars

\* C20, amended: a user turn saves one fact for each category with a
\* trigger in the text and none for the others, whatever is stored; a
\* turn with triggers of the preference and learning categories and of
\* no other saves exactly two facts; a turn of another role saves none
C20_FactsPerTriggeredCategory ==
    [][ AddTurnReturned =>
            /\ mem_op'.role = "user" =>
                   \A category \in FactCategories :
                       Created(category) = IF category \in Triggered[mem_op'.text] THEN 1 ELSE 0
            /\ (mem_op'.role = "user" /\ Triggered[mem_op'.text] = {"preference", "learning"}) =>
                   TotalFacts(user_facts'[AssistantUser]) - TotalFacts(user_facts[AssistantUser]) = 2
            /\ mem_op'.role # "user" => user_facts' = user_facts ]_vars

C20_Witness ==
    /\ mem_op.op = "add_turn"
    /\ mem_op.raised = "none"
    /\ mem_op.role = "user"
    /\ Triggered[mem_op.text] = {"preference", "learning"}
    /\ user_facts[AssistantUser] = [NoFacts EXCEPT !.preference = 2, !.learning = 2]

(***************************************************************************)
(* Claims about appending a code block to the input                        *)
(***************************************************************************)

\* C28: for any text, the complexity score of the text with a fenced code
\* block appended is greater than or equal to the score of the text alone.
C28_CodeBlockNeverLowers ==
    (fn_out # None /\ "with_block" \in DOMAIN fn_out)
        => fn_out.with_block >= fn_out.complexity_score

\* a text with two keywords and no fence gains the weight of the fence
C28_Witness ==
    /\ fn_out # None
    /\ "with_block" \in DOMAIN fn_out
    /\ fn_in.user_input = Debug \o <<"c", "r", "a", "s", "h">>
    /\ fn_out.complexity_score = 6
    /\ fn_out.with_block = 10

(***************************************************************************)
(* Claims about the fingerprint                                            *)
(***************************************************************************)

\* the same characters up to str.lower
DifferOnlyInCase(x, y) ==
    /\ x # y
    /\ Len(x) = Len(y)
    /\ \A i \in 1..Len(x) : LowerChar(x[i]) = LowerChar(y[i])

\* the same words in the same order, with other whitespace between or around them
DifferOnlyInWhitespace(x, y) ==
    /\ x # y
    /\ SelectSeq(x, LAMBDA ch : ch \notin Whitespace) = SelectSeq(y, LAMBDA ch : ch \notin Whitespace)
    /\ WordCount(x) = WordCount(y)

\* the same text up to whitespace before the first and after the last word
DifferOnlyInOuterWhitespace(x, y) ==
    /\ x # y
    /\ Strip(x) = Strip(y)

\* C29 as stated: two inputs that differ only in letter case or only in
\* whitespace map to the same fingerprint, so a get of the second right after
\* a set of the first returns the result stored for the first.
C29_Original ==
    [][ ( /\ cache_op.op = "set"
          /\ cache_op'.op = "get"
          /\ \/ DifferOnlyInCase(cache_op.user_input, cache_op'.user_input)
             \/ DifferOnlyInWhitespace(cache_op.user_input, cache_op'.user_input) )
        => /\ _hash_key(cache_op.user_input) = _hash_key(cache_op'.user_input)
           /\ cache_op'.returned # None
           /\ cache_op'.returned = ResponseCache_get(cache, cache_op.user_input) ]_vars

\* C29 amended: two inputs that differ only in letter case or only in
\* whitespace before the first or after the last word map to the same
\* fingerprint, so a get of the second right after a set of the first returns
\* the result stored for the first.
C29_SameFingerprint ==
    [][ ( /\ cache_op.op = "set"
          /\ cache_op'.op = "get"
          /\ \/ DifferOnlyInCase(cache_op.user_input, cache_op'.user_input)
             \/ DifferOnlyInOuterWhitespace(cache_op.user_input, cache_op'.user_input) )
        => /\ _hash_key(cache_op.user_input) = _hash_key(cache_op'.user_input)
           /\ cache_op'.returned # None
           /\ cache_op'.returned = ResponseCache_get(cache, cache_op.user_input) ]_vars

\* a get of 'A' finds the entry of 'a', the only entry
C29_Witness ==
    /\ cache_op.op = "get"
    /\ cache_op.user_input = <<"A">>
    /\ cache_op.returned # None
    /\ CacheKeys(cache) = {<<"a">>}
    /\ clock = 2

\* a get of 'b  c' right after the set of 'b c', the only entry, finds nothing
C29_InnerWhitespaceMisses ==
    /\ cache_op.op = "get"
    /\ cache_op.user_input = <<"b", " ", " ", "c">>
    /\ cache_op.returned = None
    /\ CacheKeys(cache) = {<<"b", " ", "c">>}
    /\ clock = 2

(***************************************************************************)
(* Claims about add_turn on a session that is not open                      *)
(***************************************************************************)

\* C30: add_turn with a session id that is not in the open registry (never
\* created, or already ended) fails and changes nothing: no turn is appended
\* to any session, no counter changes, and nothing is written to the vector
\* store or to the checkpoint.
C30_UnknownSessionChangesNothing ==
    [][ (mem_op'.op = "add_turn" /\ mem_op'.session_id \notin DOMAIN active_sessions) =>
            /\ mem_op'.raised = "ValueError"
            /\ active_sessions' = active_sessions
            /\ conversations' = conversations
            /\ user_facts' = user_facts
            /\ solutions' = solutions
            /\ sessions_file' = sessions_file ]_vars

\* add_turn was refused for a session that had been created and is no longer
\* open, while another session with a turn is open
C30_Witness ==
    /\ mem_op.op = "add_turn"
    /\ mem_op.raised = "ValueError"
    /\ mem_op.session_id <= uuids
    /\ mem_op.session_id \notin DOMAIN active_sessions
    /\ \E sid \in DOMAIN active_sessions : active_sessions[sid].total_turns = 1

\* add_turn was refused for an id that no session ever had
C30_NeverCreated ==
    /\ mem_op.op = "add_turn"
    /\ mem_op.raised = "ValueError"
    /\ mem_op.session_id > uuids

(***************************************************************************)
(* RealtimeSearchService.get_context called again and again while time     *)
(* passes, each external source answering or failing in its own way        *)
(***************************************************************************)

MaxLookupSteps == 4
TitleLimit == 160

\* what urlopen and read do for one source:
\*   unreachable  TimeoutError, URLError or OSError (refused, reset, HTTP 4xx/5xx)
\*   broken       the answer is not valid HTTP or ends before its declared
\*                length: http.client.HTTPException, which is no OSError
\*   unparsable   the body is not XML (feed) or not JSON (instant answers)
\*   unexpected   the body parses but is not the expected document: a feed
\*                without items, JSON that is not an object
\*   entries      the items of the feed, or the abstract and related topics
Unreachable == [kind |-> "unreachable", entries |-> << >>]
Broken == [kind |-> "broken", entries |-> << >>]
Unparsable == [kind |-> "unparsable", entries |-> << >>]
Unexpected == [kind |-> "unexpected", entries |-> << >>]
Answer(entries) == [kind |-> "entries", entries |-> entries]

Untitled == [title |-> << >>, url |-> <<"u", "0">>, published_at |-> << >>]

Kept(entries) ==
    LET ok(item) == Strip(item.title) # << >> /\ Strip(item.url) # << >>
        kept == SelectSeq(entries, ok)
    IN  SubSeq(kept, 1, Min(Len(kept), MaxResults))

\* lines 191-221. Returns [raised, items].
_search_news_rss(response) ==
    IF response.kind = "broken" THEN [raised |-> TRUE, items |-> << >>]
    ELSE IF response.kind \in {"unreachable", "unparsable", "unexpected"}
        THEN [raised |-> FALSE, items |-> << >>]
    ELSE [raised |-> FALSE,
          items |-> [i \in 1..Len(Kept(response.entries)) |->
                        [title |-> Strip(Kept(response.entries)[i].title),
                         url |-> Strip(Kept(response.entries)[i].url),
                         published_at |-> Strip(Kept(response.entries)[i].published_at)]]]

\* lines 223-265: data.get on JSON that is not an object raises
\* AttributeError. Returns [raised, items].
_search_duckduckgo(response) ==
    IF response.kind \in {"broken", "unexpected"} THEN [raised |-> TRUE, items |-> << >>]
    ELSE IF response.kind \in {"unreachable", "unparsable"} THEN [raised |-> FALSE, items |-> << >>]
    ELSE [raised |-> FALSE,
          items |-> [i \in 1..Len(Kept(response.entries)) |->
                        [title |-> SubSeq(Strip(Kept(response.entries)[i].title), 1,
                                          Min(Len(Strip(Kept(response.entries)[i].title)), TitleLimit)),
                         url |-> Strip(Kept(response.entries)[i].url),
                         published_at |-> << >>]]]

NotAsked == [kind |-> "not asked", entries |-> << >>]

\* lines 145-147: the feed is asked, the instant answers only when the feed
\* returned no item
AsksSecond(rss_response) ==
    ~_search_news_rss(rss_response).raised /\ _search_news_rss(rss_response).items = << >>

Queried(rss_response) == IF AsksSecond(rss_response) THEN <<"rss", "ddg">> ELSE <<"rss">>

\* what the two searches hand to get_context
Fetch(rss_response, ddg_response) ==
    [raises |-> \/ _search_news_rss(rss_response).raised
                \/ (AsksSecond(rss_response) /\ _search_duckduckgo(ddg_response).raised),
     rss |-> _search_news_rss(rss_response).items,
     ddg |-> IF AsksSecond(rss_response) THEN _search_duckduckgo(ddg_response).items ELSE << >>]

\* a feed with more titled items than max_results
LongFeed == Answer(<<Source2, Untitled, Source1, Source1, Source2>>)

RssResponses == {Unreachable, Broken, Unparsable, Answer(<<Untitled>>), LongFeed}
DdgResponses == {Unreachable, Broken, Unparsable, Unexpected, Answer(<<Source2>>)}

\* the same question typed twice, with one key, and a greeting
SameKeyQuestion == <<" ", "p", "r", "e", "ç", "o", " ", "h", "o", "j", "e", "?">>
LookupInputs == {TimeSensitiveQuestion, SameKeyQuestion, SimpleGreeting}

\* one call of get_context. inserted_at keeps, for each key, when the last
\* call that looked up and returned did so, and what it returned
GetContextCall(user_input, rss_response, ddg_response) ==
    /\ clock < MaxLookupSteps
    /\ ddg_response = NotAsked <=> ~AsksSecond(rss_response)
    /\ \E got \in {get_context(enabled, rt_cache, now, user_input, Fetch(rss_response, ddg_response))} :
        /\ rt_cache' = got.cache
        /\ fn_in' = [user_input |-> user_input, rss |-> rss_response, ddg |-> ddg_response]
        /\ fn_out' = [raised |-> got.raised, context |-> got.context,
                      queried |-> IF got.fetched THEN Queried(rss_response) ELSE << >>]
        /\ inserted_at' = IF got.fetched /\ ~got.raised
                            THEN (ContextKey(user_input) :> [at |-> now, context |-> got.context]) @@ inserted_at
                            ELSE inserted_at
    /\ clock' = clock + 1
    /\ UNCHANGED <<enabled, now, cache, max_size, log_file, call, ret, trace, cache_op, memoryVars>>

\* time passes between two calls: a second, or a second less than the time-to-live
Pass(seconds) ==
    /\ clock < MaxLookupSteps
    /\ now' = now + seconds
    /\ clock' = clock + 1
    /\ UNCHANGED <<enabled, rt_cache, cache, max_size, log_file, call, ret, trace,
                   inserted_at, cache_op, fnVars, memoryVars>>

LookupInit ==
    /\ enabled \in BOOLEAN
    /\ DispatcherInit
    /\ GhostIdle
    /\ FnIdle
    /\ MemoryIdle
    /\ TokenIdle

LookupNext ==
    \/ \E user_input \in LookupInputs, rss_response \in RssResponses, ddg_response \in DdgResponses \cup {NotAsked} :
          GetContextCall(user_input, rss_response, ddg_response)
    \/ \E seconds \in {1, CacheTtlSeconds - 1} : Pass(seconds)

SpecLookup == LookupInit /\ [][LookupNext]_vars

(***************************************************************************)
(* Claims about get_context                                                *)
(***************************************************************************)

\* the step is a call of get_context
IsGetContextStep == clock' = clock + 1 /\ now' = now

\* C24: within the TTL (600 s) after get_context has resolved a query, a
\* further get_context with the same key performs no external lookup and
\* returns the same context, also when the first result was empty; once the
\* TTL has expired the next call looks up again.
C24_CachedWithinTtl ==
    [][ (IsGetContextStep /\ ContextKey(fn_in'.user_input) \in DOMAIN inserted_at) =>
            \E resolved \in {inserted_at[ContextKey(fn_in'.user_input)]} :
                /\ now < resolved.at + 600 =>
                       /\ fn_out'.queried = << >>
                       /\ ~fn_out'.raised
                       /\ fn_out'.context = resolved.context
                /\ now >= resolved.at + 600 => fn_out'.queried # << >> ]_vars

\* a second less than the time-to-live after a lookup that found nothing, the
\* question typed another way is answered with the stored empty context
C24_Witness ==
    /\ fn_out # None
    /\ fn_in.user_input = SameKeyQuestion
    /\ fn_out.queried = << >>
    /\ fn_out.context = EmptyContext
    /\ ContextKey(fn_in.user_input) \in DOMAIN inserted_at
    /\ inserted_at[ContextKey(fn_in.user_input)].context = EmptyContext
    /\ now = inserted_at[ContextKey(fn_in.user_input)].at + CacheTtlSeconds - 1
    /\ clock = 3

\* a lookup at the very second the stored context expired
C24_LooksUpAfterExpiry ==
    /\ fn_out # None
    /\ fn_out.queried # << >>
    /\ clock = 4
    /\ now = CacheTtlSeconds
    /\ ContextKey(fn_in.user_input) \in DOMAIN rt_cache
    /\ rt_cache[ContextKey(fn_in.user_input)].expires = 2 * CacheTtlSeconds

\* a network or parse failure of a source
Failed(response) == response.kind \in {"unreachable", "broken", "unparsable"}

\* C25: get_context queries the feed source first and the web-answer source
\* only when the first yields no snippets; a network or parse failure at
\* either source yields an empty RealtimeContext, never an exception.
C25_OrderedAndNeverRaises ==
    (fn_out # None /\ fn_out.queried # << >>) =>
        /\ fn_out.queried[1] = "rss"
        /\ Len(fn_out.queried) = 2 =>
               (fn_out.queried[2] = "ddg" /\ _search_news_rss(fn_in.rss).items = << >>)
        /\ ~fn_out.raised
        /\ (Failed(fn_in.rss) /\ Failed(fn_in.ddg)) => fn_out.context = EmptyContext

\* the order of the two sources alone
C25_FeedFirst ==
    (fn_out # None /\ fn_out.queried # << >>) =>
        /\ fn_out.queried[1] = "rss"
        /\ Len(fn_out.queried) = 2 <=>
               (~_search_news_rss(fn_in.rss).raised /\ _search_news_rss(fn_in.rss).items = << >>)

\* failures that the sources catch give the empty context
C25_CaughtFailuresGiveEmpty ==
    ( /\ fn_out # None
      /\ fn_out.queried # << >>
      /\ fn_in.rss.kind \in {"unreachable", "unparsable"}
      /\ fn_in.ddg.kind \in {"unreachable", "unparsable"} )
        => (~fn_out.raised /\ fn_out.context = EmptyContext)

(***************************************************************************)
(* MemorySystem.get_context_for_session                                    *)
(*                                                                         *)
(* A text is the sequence of its lines.  A collection holds counts, so a   *)
(* section has one line for each document it renders; which session or     *)
(* category order the vector store answers in is not tracked.              *)
(***************************************************************************)

RecentLimit == 50
MessagesPerSession == 6
MaxFactsDefault == 10
FactsPerCategory == 3
SolutionsLimit == 5

FirstConversation == <<"# Primeira conversa com este usuário.", "">>

Collections == {"conversations", "user_facts", "solutions"}

CategoryOrder == <<"tech_stack", "project", "preference", "learning", "problem">>

Lines(line, n) == [i \in 1..n |-> line]

\* lines 289-355: failed holds the collections whose query raises, in_window
\* is the number of the user's turns not older than the cutoff, which is
\* include_days before the time of the call
_get_recent_conversations(m, user_id, failed, in_window) ==
    IF "conversations" \in failed \/ Query(in_window, RecentLimit) = 0 THEN << >>
    ELSE <<"## Sessão de">> \o Lines("**Usuário:**", Min(Query(in_window, RecentLimit), MessagesPerSession))

RECURSIVE FactLines(_, _)
FactLines(facts, k) ==
    IF k > Len(CategoryOrder) THEN << >>
    ELSE (IF facts[CategoryOrder[k]] = 0 THEN << >>
          ELSE <<CategoryOrder[k]>> \o Lines("  - ", Min(facts[CategoryOrder[k]], FactsPerCategory)))
         \o FactLines(facts, k + 1)

\* lines 357-397
_get_user_facts_context(m, user_id, failed) ==
    IF "user_facts" \in failed \/ Query(TotalFacts(m.user_facts[user_id]), MaxFactsDefault) = 0 THEN << >>
    ELSE FactLines(m.user_facts[user_id], 1)

\* lines 399-423
_get_solutions_context(m, user_id, failed) ==
    IF "solutions" \in failed THEN << >>
    ELSE Lines("**[topics]**", Query(m.solutions[user_id], SolutionsLimit))

\* the sentinel is returned whenever no recent conversation is found
get_context_for_session_OnlyRecent(m, user_id, failed, in_window) ==
    LET recent == _get_recent_conversations(m, user_id, failed, in_window)
        facts == _get_user_facts_context(m, user_id, failed)
        found == _get_solutions_context(m, user_id, failed)
    IN  [m |-> m, raised |-> "none",
         sections |-> [recent |-> recent, facts |-> facts, solutions |-> found],
         returned |-> IF recent = << >> THEN FirstConversation
                      ELSE <<"# CONVERSAS RECENTES">> \o recent]

\* the sessions of the user are closed while the context is built
get_context_for_session_ClosesSessions(m, user_id, failed, in_window) ==
    [m |-> [m EXCEPT !.active_sessions =
                [sid \in {x \in DOMAIN @ : @[x].user_id # user_id} |-> @[sid]]],
     raised |-> "none",
     sections |-> [recent |-> << >>, facts |-> << >>, solutions |-> << >>],
     returned |-> FirstConversation]

\* lines 247-287. Returns [m, raised, sections, returned].
get_context_for_session(m, user_id, failed, in_window) ==
    LET recent == _get_recent_conversations(m, user_id, failed, in_window)
        facts == _get_user_facts_context(m, user_id, failed)
        found == _get_solutions_context(m, user_id, failed)
        context_parts ==
            (IF recent # << >> THEN <<"# CONVERSAS RECENTES">> \o recent ELSE << >>)
            \o (IF facts # << >> THEN <<"", "# INFORMAÇÕES SOBRE O USUÁRIO">> \o facts ELSE << >>)
            \o (IF found # << >> THEN <<"", "# SOLUÇÕES QUE FUNCIONARAM ANTES">> \o found ELSE << >>)
    IN  [m |-> m, raised |-> "none",
         sections |-> [recent |-> recent, facts |-> facts, solutions |-> found],
         returned |-> IF context_parts = << >> THEN FirstConversation ELSE context_parts]

GetContextForSession(user_id, failed, in_window) ==
    /\ in_window <= conversations[user_id]
    /\ \E done \in {get_context_for_session(MemoryState, user_id, failed, in_window)} :
        /\ Becomes(done.m)
        /\ mem_op' = [op |-> "get_context_for_session", user_id |-> user_id, failed |-> failed,
                      in_window |-> in_window, raised |-> done.raised,
                      sections |-> done.sections, returned |-> done.returned]
    /\ UNCHANGED <<session_id, dispatcherVars>>

ContextNext ==
    \/ \E user_id \in Users : CreateSession(user_id)
    \/ \E sid \in SessionIds, turn \in TurnInputs : AddTurn(sid, turn[1], turn[2], turn[3], "ok")
    \/ \E user_id \in Users, failed \in SUBSET Collections, in_window \in 0..MaxUuids :
          GetContextForSession(user_id, failed, in_window)

SpecContext == MemoryInit /\ [][ContextNext]_vars

(***************************************************************************)
(* Claims about get_context_for_session                                    *)
(***************************************************************************)

\* C26: get_context_for_session returns the fixed 'first conversation'
\* sentinel exactly when the recent-conversation, fact and solution sections
\* are all empty; a vector-store query that fails gives an empty section and
\* the call does not raise.
C26_SentinelIffAllEmpty ==
    mem_op.op = "get_context_for_session" =>
        /\ mem_op.raised = "none"
        /\ mem_op.returned = FirstConversation <=>
               /\ mem_op.sections.recent = << >>
               /\ mem_op.sections.facts = << >>
               /\ mem_op.sections.solutions = << >>
        /\ "conversations" \in mem_op.failed => mem_op.sections.recent = << >>
        /\ "user_facts" \in mem_op.failed => mem_op.sections.facts = << >>
        /\ "solutions" \in mem_op.failed => mem_op.sections.solutions = << >>

\* the three queries fail for a user who has a recent turn, a fact and a
\* solution in the store: the sentinel is returned
C26_Witness ==
    /\ mem_op.op = "get_context_for_session"
    /\ mem_op.failed = Collections
    /\ mem_op.in_window >= 1
    /\ TotalFacts(user_facts[mem_op.user_id]) >= 1
    /\ solutions[mem_op.user_id] >= 1
    /\ mem_op.returned = FirstConversation

\* C27 as stated: get_context_for_session modifies neither the vector store
\* nor the session registry, and two consecutive calls with identical
\* arguments, the store being unchanged, return identical text.
C27_Original ==
    [][ /\ mem_op'.op = "get_context_for_session" =>
               UNCHANGED <<active_sessions, sessions_file, storeVars, uuids>>
        /\ ( /\ mem_op.op = "get_context_for_session"
             /\ mem_op'.op = "get_context_for_session"
             /\ mem_op'.user_id = mem_op.user_id )
           => mem_op'.returned = mem_op.returned ]_vars

\* C27 amended: get_context_for_session modifies neither the vector store
\* nor the session registry, and two consecutive calls with identical
\* arguments, the store being unchanged, return identical text when the same
\* queries fail in both calls and the same turns are inside the lookback
\* window at the time of both calls.
C27_ReadOnly ==
    [][ /\ mem_op'.op = "get_context_for_session" =>
               UNCHANGED <<active_sessions, sessions_file, storeVars, uuids>>
        /\ ( /\ mem_op.op = "get_context_for_session"
             /\ mem_op'.op = "get_context_for_session"
             /\ mem_op'.user_id = mem_op.user_id
             /\ mem_op'.failed = mem_op.failed
             /\ mem_op'.in_window = mem_op.in_window )
           => mem_op'.returned = mem_op.returned ]_vars

\* a context with the three sections was built for a user with an open session
C27_Witness ==
    /\ mem_op.op = "get_context_for_session"
    /\ mem_op.failed = {}
    /\ mem_op.sections.recent # << >>
    /\ mem_op.sections.facts # << >>
    /\ mem_op.sections.solutions # << >>
    /\ \E sid \in DOMAIN active_sessions :
           /\ active_sessions[sid].user_id = mem_op.user_id
           /\ active_sessions[sid].total_turns = 2

(***************************************************************************)
(* Two assistants in one process.  get_reasoning_system hands every         *)
(* OptimizedAssistant the one module-level GeminiReasoningSystem, so the    *)
(* calls of both go to the same ResponseCache and RealtimeSearchService.    *)
(***************************************************************************)

AgentSessions == {1, 2}

\* OptimizedAssistant.memory_context of each assistant
memory_context == [session \in AgentSessions |-> <<"m", "e", "m", "o", "r", "i", "a", " ">> \o ShowNat(session)]

SharedInputs == {SimpleGreeting, TimeSensitiveQuestion}

ResponseKey(user_input) == <<"cache", _hash_key(user_input)>>
RealtimeKey(user_input) == <<"realtime", ContextKey(user_input)>>

\* reasoning_system.py, lines 797-802, and agent.py, lines 257-263 and
\* 527-530: the assistant of a session calls process on the shared
\* dispatcher with its own memory context
AssistantProcess(session, user_input, force_mode) ==
    /\ ProcessBody(user_input, memory_context[session], force_mode)
    /\ caller' = session
    /\ \E by \in {IF trace'.cache_written
                     THEN (ResponseKey(user_input) :> session) @@ written_by ELSE written_by} :
           written_by' = IF trace'.fetched /\ ~trace'.fetch_raised
                           THEN (RealtimeKey(user_input) :> session) @@ by ELSE by
    /\ UNCHANGED cacheGhost
    /\ UNCHANGED fnVars
    /\ UNCHANGED <<active_sessions, sessions_file, storeVars, session_id, uuids, mem_op,
                   shutting_down, background_tasks, pending_user_meta, items_added, tokenVars>>

SharedNext ==
    \/ \E session \in AgentSessions, user_input \in SharedInputs, force_mode \in ForcedModes :
          AssistantProcess(session, user_input, force_mode)
    \/ Tick

SpecShared == Init /\ [][SharedNext]_vars

(***************************************************************************)
(* Claims about sessions that share the dispatcher                         *)
(***************************************************************************)

\* the last call was answered from the ResponseCache
AnsweredFromCache == ret # None /\ trace.cache_hit

\* the last call used a stored external context instead of looking one up
UsedStoredContext == ret # None /\ trace.time_sensitive /\ ~trace.fetched

\* C21: the result process returns for a request depends only on the
\* request's text, context and forced mode, not on requests made earlier by
\* a different session: no call is answered from dispatcher state that the
\* call of another session wrote.
C21_SessionsShareNothing ==
    /\ AnsweredFromCache => written_by[ResponseKey(call.user_input)] = caller
    /\ UsedStoredContext => written_by[RealtimeKey(call.user_input)] = caller

\* the greeting of session 2 is answered with the result generated for session 1
C21_AnsweredWithAnothersResult ==
    /\ AnsweredFromCache
    /\ caller = 2
    /\ call.context = memory_context[2]
    /\ written_by[ResponseKey(call.user_input)] = 1
    /\ ret.execution_time_ms = CacheHitMs

(***************************************************************************)
(* One OptimizedAssistant on the asyncio loop: conversation items arrive,   *)
(* each starts a handler task, the handler of a user message may wait for   *)
(* the dispatcher, and finalize_session ends the session.  Vision is off    *)
(* and the vector store answers.                                           *)
(***************************************************************************)

\* the texts an item may carry, by its position in the conversation and its
\* role; no two positions share a text for the same role
ItemChoices ==
    << [user |-> {DeepQuestion, PlainText}, assistant |-> {SolutionText}],
       [user |-> {FactText, DeepQuestionAgain}, assistant |-> {FactText}],
       [user |-> {SolutionText}, assistant |-> {PlainText}] >>

MaxItems == Min(MaxUuids - 1, Len(ItemChoices))

Task(role, text, at) == [role |-> role, text |-> text, at |-> at]

Without(tasks, i) == [k \in 1..(Len(tasks) - 1) |-> IF k < i THEN tasks[k] ELSE tasks[k + 1]]

\* asyncio.Lock.release: the longest waiting task gets the lock and is run
\* after the tasks that are ready
Wake(tasks) ==
    IF \E k \in 1..Len(tasks) : tasks[k].at = "lock"
        THEN LET w == CHOOSE k \in 1..Len(tasks) :
                          tasks[k].at = "lock" /\ \A j \in 1..(k - 1) : tasks[j].at # "lock"
             IN  Append(Without(tasks, w), [tasks[w] EXCEPT !.at = "woken"])
        ELSE tasks

\* the handler of a user message takes no lock
LockTaken_Never(tasks) == FALSE

\* _aux_lock is held by the task that waits for the dispatcher and is
\* reserved for the waiter that release woke
LockTaken(tasks) == \E k \in 1..Len(tasks) : tasks[k].at \in {"dispatch", "woken"}

Runnable(tasks) == {k \in 1..Len(tasks) : tasks[k].at \in {"ready", "woken"}}

\* the task the loop runs next: ready tasks run in the order they became ready
NextTask(tasks) == CHOOSE k \in Runnable(tasks) : \A j \in Runnable(tasks) : k <= j

\* the dispatch in flight goes on after cancel
Cancel_SparesDispatch(tasks) ==
    [k \in 1..Len(tasks) |-> IF tasks[k].at = "dispatch" THEN tasks[k] ELSE [tasks[k] EXCEPT !.at = "cancelled"]]

\* finalize_session, lines 573-575: task.cancel() for every tracked task
Cancel(tasks) == [k \in 1..Len(tasks) |-> [tasks[k] EXCEPT !.at = "cancelled"]]

\* agent.py, line 356, then _safe_memory_add_turn
SafeAdd(role, text, reasoning_used) ==
    IF shutting_down
        THEN [m |-> MemoryState, session_id |-> session_id, raised |-> "none", logged |-> "skipped"]
        ELSE _safe_memory_add_turn(MemoryState, session_id, role, text, reasoning_used, "ok")

\* lines 384-398
on_conversation_item_added(role, text) ==
    /\ UNCHANGED <<gateVars, cacheVars, processVars, cacheGhost, fnVars, caller, written_by, tokenVars>>
    /\ IF shutting_down
           THEN /\ mem_op.op = "finalize_session"
                /\ mem_op' = [mem_op EXCEPT !.ignored_item = TRUE]
                /\ UNCHANGED <<active_sessions, sessions_file, storeVars, session_id, uuids,
                               shutting_down, background_tasks, pending_user_meta, items_added>>
           ELSE /\ items_added < MaxItems
                /\ text \in ItemChoices[items_added + 1][role]
                /\ background_tasks' = Append(background_tasks, Task(role, text, "ready"))
                /\ items_added' = items_added + 1
                /\ mem_op' = [op |-> "on_conversation_item_added", role |-> role, text |-> text]
                /\ UNCHANGED <<active_sessions, sessions_file, storeVars, session_id, uuids,
                               shutting_down, pending_user_meta>>

\* lines 471 and 482: the reply takes the oldest pending metadata
PoppedMeta(pending) ==
    IF pending # << >> THEN Head(pending) ELSE [mode |-> "realtime", reasoning_used |-> FALSE]

\* what the handler of the task does when the loop resumes it.
\* _handle_assistant_message (lines 469-485) takes no lock and awaits
\* nothing: it records. _handle_user_message (lines 400-467) waits for
\* _aux_lock when it is taken; a message not scored DEEP is recorded at
\* once; a message scored DEEP goes through process, which returns without
\* suspending on a cache hit (lines 346-352) and is awaited otherwise
Plan(task) ==
    IF task.role = "assistant" THEN "record"
    ELSE IF task.at = "dispatch" THEN "process"
    ELSE IF task.at = "ready" /\ LockTaken(background_tasks) THEN "lock"
    ELSE IF _select_mode(task.text) # REASONING_DEEP THEN "record"
    ELSE IF ~should_search(enabled, task.text) /\ ResponseCache_get(cache, task.text) # None THEN "process"
    ELSE "dispatch"

\* the task suspends: on the lock, or on the dispatcher's worker thread
Suspend(i, at) ==
    /\ background_tasks' = [background_tasks EXCEPT ![i].at = at]
    /\ mem_op' = [op |-> "_handle_user_message", text |-> background_tasks[i].text, logged |-> at,
                  meta |-> None]
    /\ UNCHANGED <<active_sessions, sessions_file, storeVars, session_id, uuids,
                   pending_user_meta, gateVars, cacheVars, processVars>>

\* the handler runs to its end: lines 428-465 for a user message (process
\* first when plan says so), lines 471-483 for a reply
RunToEnd(i, task, plan) ==
    /\ IF plan = "process"
          THEN ProcessBody(task.text, memory_context[1], NoMode)
          ELSE UNCHANGED <<gateVars, cacheVars, processVars>>
    /\ \E meta \in {IF task.role = "assistant" THEN PoppedMeta(pending_user_meta)
                    ELSE IF plan = "process"
                        THEN [mode |-> ret'.mode, reasoning_used |-> ret'.mode = REASONING_DEEP]
                    ELSE [mode |-> _select_mode(task.text),
                          reasoning_used |-> _select_mode(task.text) = REASONING_DEEP]} :
       \E done \in {SafeAdd(task.role, task.text, meta.reasoning_used)} :
           /\ pending_user_meta' =
                  IF task.role = "user" THEN Append(pending_user_meta, meta)
                  ELSE IF pending_user_meta # << >> THEN Tail(pending_user_meta)
                  ELSE << >>
           /\ Becomes(done.m)
           /\ session_id' = done.session_id
           /\ background_tasks' = IF task.role = "user" THEN Wake(Without(background_tasks, i))
                                  ELSE Without(background_tasks, i)
           /\ mem_op' = [op |-> IF task.role = "user" THEN "_handle_user_message"
                                ELSE "_handle_assistant_message",
                         text |-> task.text, logged |-> done.logged, meta |-> meta]

\* the loop resumes a task: the next one that is ready, or one whose
\* awaited process call has returned
Resume(i) ==
    /\ i \in 1..Len(background_tasks)
    /\ \/ background_tasks[i].at = "dispatch"
       \/ i \in Runnable(background_tasks) /\ i = NextTask(background_tasks)
    /\ \E task \in {background_tasks[i]} :
       \E plan \in {Plan(task)} :
           IF plan \in {"lock", "dispatch"} THEN Suspend(i, plan) ELSE RunToEnd(i, task, plan)
    /\ UNCHANGED <<shutting_down, items_added, cacheGhost, fnVars, caller, written_by, tokenVars>>

\* a cancelled task is resumed with CancelledError where it was suspended:
\* no except clause of process or of the handlers catches it, the lock is
\* released on the way out and _cleanup (lines 325-328) forgets the task
TaskCancelled ==
    /\ \E i \in 1..Len(background_tasks) :
           /\ background_tasks[i].at = "cancelled"
           /\ \A j \in 1..(i - 1) : background_tasks[j].at # "cancelled"
           /\ background_tasks' = Without(background_tasks, i)
    /\ mem_op' = [mem_op EXCEPT !.step = "gather"]
    /\ UNCHANGED <<active_sessions, sessions_file, storeVars, session_id, uuids, shutting_down,
                   pending_user_meta, items_added, gateVars, cacheVars, processVars,
                   cacheGhost, fnVars, caller, written_by, tokenVars>>

\* lines 569-575
FinalizeBegin ==
    /\ ~shutting_down
    /\ shutting_down' = TRUE
    /\ background_tasks' = Cancel(background_tasks)
    /\ mem_op' = [op |-> "finalize_session", step |-> "cancel",
                  in_flight |-> {background_tasks[k].text : k \in {j \in 1..Len(background_tasks) :
                                                                      background_tasks[j].at = "dispatch"}},
                  ended |-> NoSession, ignored_item |-> FALSE]
    /\ UNCHANGED <<active_sessions, sessions_file, storeVars, session_id, uuids,
                   pending_user_meta, items_added, gateVars, cacheVars, processVars,
                   cacheGhost, fnVars, caller, written_by, tokenVars>>

\* lines 576-581, once gather has returned
FinalizeEnd ==
    /\ shutting_down
    /\ background_tasks = << >>
    /\ session_id # NoSession
    /\ Becomes(end_session(MemoryState, session_id).m)
    /\ session_id' = NoSession
    /\ mem_op' = [mem_op EXCEPT !.step = "end_session", !.ended = session_id]
    /\ UNCHANGED <<shutting_down, background_tasks, pending_user_meta, items_added,
                   gateVars, cacheVars, processVars,
                   cacheGhost, fnVars, caller, written_by, tokenVars>>

\* OptimizedAssistant.__init__ with memory and reasoning enabled
AgentInit ==
    /\ \E started \in {create_session([active_sessions |-> EmptyDict, sessions_file |-> NoFile,
                                       conversations |-> [user_id \in Users |-> 0],
                                       user_facts |-> [user_id \in Users |-> NoFacts],
                                       solutions |-> [user_id \in Users |-> 0],
                                       uuids |-> 0], AssistantUser)} :
        /\ active_sessions = started.m.active_sessions
        /\ sessions_file = started.m.sessions_file
        /\ conversations = started.m.conversations
        /\ user_facts = started.m.user_facts
        /\ solutions = started.m.solutions
        /\ uuids = started.m.uuids
        /\ session_id = started.returned
    /\ mem_op = NoMemOp
    /\ AgentIdle
    /\ TokenIdle
    /\ enabled \in BOOLEAN
    /\ DispatcherInit
    /\ GhostIdle
    /\ FnIdle

AgentNext ==
    \/ \E role \in {"user", "assistant"}, text \in Texts : on_conversation_item_added(role, text)
    \/ \E i \in 1..MaxItems : Resume(i)
    \/ FinalizeBegin
    \/ TaskCancelled
    \/ FinalizeEnd

SpecAgent == AgentInit /\ [][AgentNext]_vars

(***************************************************************************)
(* The order of the turn log and the end of the session                    *)
(***************************************************************************)

\* the place in the conversation of the item a turn was recorded for
PositionOf(turn) == CHOOSE k \in 1..Len(ItemChoices) : turn.text \in ItemChoices[k][turn.role]

\* C22: in every session the turns are in the log in the order in which
\* their conversation items were added, whatever the interleaving of the
\* handler tasks. The code does not keep it: the handler of a user message
\* records its turn only after the dispatcher has answered, the handler of
\* the reply records at once
C22_TurnsInItemOrder ==
    \A sid \in DOMAIN active_sessions :
        \A i, j \in 1..Len(active_sessions[sid].messages) :
            i < j => PositionOf(active_sessions[sid].messages[i])
                         < PositionOf(active_sessions[sid].messages[j])

\* the reply is in the log while the handler of its question still waits
\* for the dispatcher
C22_ReplyRecordedFirst ==
    /\ session_id \in DOMAIN active_sessions
    /\ \E k \in 1..Len(background_tasks) :
           /\ background_tasks[k].role = "user"
           /\ background_tasks[k].at = "dispatch"
    /\ \E i \in 1..Len(active_sessions[session_id].messages) :
           active_sessions[session_id].messages[i].role = "assistant"

\* a step that takes a turn into a session, opens a session, or writes the
\* dispatcher's response cache
Commits ==
    \/ cache' # cache
    \/ uuids' # uuids
    \/ conversations' # conversations
    \/ \E sid \in DOMAIN active_sessions' :
           \/ sid \notin DOMAIN active_sessions
           \/ active_sessions'[sid].messages # active_sessions[sid].messages

\* C23: finalize_session cancels every handler task, the one waiting for
\* the dispatcher included; from the moment shutdown begins no step writes
\* the response cache, appends a turn or opens a session; and when the
\* tasks have ended the assistant's session leaves the registry
C23_ShutdownCommitsNothing ==
    [][ /\ shutting_down' => ~Commits
        /\ (~shutting_down /\ shutting_down') =>
               \A k \in 1..Len(background_tasks') : background_tasks'[k].at = "cancelled"
        /\ (shutting_down /\ session_id # NoSession /\ session_id' = NoSession) =>
               /\ background_tasks = << >>
               /\ session_id \notin DOMAIN active_sessions'
        /\ ~shutting_down' => ~shutting_down ]_vars

\* the session was ended while a question was with the dispatcher, and the
\* question left neither a cache entry nor a turn
C23_Witness ==
    /\ shutting_down
    /\ mem_op.op = "finalize_session"
    /\ mem_op.step = "end_session"
    /\ mem_op.in_flight # {}
    /\ \A text \in mem_op.in_flight : ResponseCache_get(cache, text) = None
    /\ mem_op.ended \notin DOMAIN active_sessions
    /\ session_id = NoSession
    /\ conversations[AssistantUser] = 0

(***************************************************************************)
(* ResponseCache.set of a key that is present                              *)
(***************************************************************************)

\* the step is a set of a text whose fingerprint was in the cache
SetOfPresentKey == cache_op'.op = "set" /\ _hash_key(cache_op'.user_input) \in CacheKeys(cache)

\* the entries of c under keys other than key, in their order
Others(c, key) == SelectSeq(c, LAMBDA e : e.key # key)

\* C39 as stated: a set of a key that is present replaces its result and
\* evicts no other entry, also when the cache holds max_size entries. The
\* eviction step of set runs whenever the cache is full, whatever the key
C39_Original ==
    [][ SetOfPresentKey =>
            /\ ResponseCache_get(cache', cache_op'.user_input) = cache_op'.result
            /\ Others(cache', _hash_key(cache_op'.user_input))
                   = Others(cache, _hash_key(cache_op'.user_input)) ]_vars

\* C39: a set of a key that is present leaves that key with the new result.
\* Below capacity no entry is evicted, and no entry changes its place. At
\* capacity the entry inserted earliest is evicted first, as for any other
\* set: when that is another key's entry it is lost and the key set keeps
\* its place, when it is the key's own entry the key is inserted anew as
\* the latest and no other entry is lost
C39_ReplacesAfterEviction ==
    [][ SetOfPresentKey =>
          \E key \in {_hash_key(cache_op'.user_input)} :
            /\ ResponseCache_get(cache', cache_op'.user_input) = cache_op'.result
            /\ Len(cache) < max_size =>
                   /\ Others(cache', key) = Others(cache, key)
                   /\ CachePos(cache', key) = CachePos(cache, key)
            /\ (Len(cache) >= max_size /\ Head(cache).key # key) =>
                   /\ cache' = [Tail(cache) EXCEPT ![CachePos(cache, key) - 1].result = cache_op'.result]
                   /\ Head(cache).key \notin CacheKeys(cache')
            /\ (Len(cache) >= max_size /\ Head(cache).key = key) =>
                   cache' = Append(Tail(cache), [key |-> key, result |-> cache_op'.result]) ]_vars

\* a full cache of two entries lost its first entry to a set of the second
C39_Witness ==
    /\ cache_op.op = "set"
    /\ max_size = 2
    /\ Len(cache) = 1
    /\ cache[1].key = _hash_key(cache_op.user_input)
    /\ cache[1].result = cache_op.result
    /\ inserted_at[cache[1].key] < clock - 1

(***************************************************************************)
(* process with a forced mode                                              *)
(***************************************************************************)

ForcedStep == ProcessStep /\ call'.force_mode # NoMode

C38_HitWhateverContext ==
    [][ ( /\ ProcessStep
          /\ call'.force_mode = NoMode
          /\ ~should_search(enabled, call'.user_input)
          /\ _hash_key(call'.user_input) \in CacheKeys(cache) )
        => \E stored \in {cache[CachePos(cache, _hash_key(call'.user_input))].result} :
               /\ trace'.cache_hit
               /\ trace'.generations = << >>
               /\ ret'.text = stored.text
               /\ ret'.mode = stored.mode
               /\ ret'.confidence = stored.confidence ]_vars

\* the assistant of session 1 is answered from the entry that a call with
\* the context of session 2 stored
C38_Witness ==
    /\ AnsweredFromCache
    /\ caller = 1
    /\ call.context = memory_context[1]
    /\ memory_context[1] # memory_context[2]
    /\ written_by[ResponseKey(call.user_input)] = 2
    /\ ret.text = ResponseCache_get(cache, call.user_input).text

(***************************************************************************)
(* The decision log                                                        *)
(***************************************************************************)

\* C34 as stated: every completed call appends exactly one record (none
\* only when the write fails, which is swallowed). A call answered from the
\* cache returns at line 352, before either call of log_decision
C34_Original ==
    [][ ProcessStep =>
            \/ log_file' = log_file + 1
            \/ ~trace'.cache_hit /\ log_file' = log_file ]_vars

\* C34: a completed call that is not answered from the response cache
\* appends exactly one record to the decision log unless the write fails,
\* and a call answered from the cache appends none; the log only grows, by
\* whole records at its end; a failed write does not raise: the call
\* returns its result, with the cache written as after a successful one
C34_OneRecordPerDispatch ==
    [][ /\ log_file' >= log_file
        /\ ProcessStep =>
               /\ ret' # None
               /\ IF trace'.cache_hit
                      THEN log_file' = log_file
                      ELSE log_file' \in {log_file, log_file + 1}
               /\ (~trace'.cache_hit /\ log_file' = log_file) =>
                      /\ ret'.execution_time_ms = ElapsedMs
                      /\ trace'.generations = << >> <=> (trace'.time_sensitive /\ trace'.sources = << >>)
                      /\ trace'.cache_written =
                             ShouldStore(call'.force_mode, trace'.time_sensitive, ret') ]_vars

\* a generated result was returned and stored although its record could
\* not be written
C34_Witness ==
    /\ Returned
    /\ ~trace.cache_hit
    /\ log_file = 0
    /\ trace.generations # << >>
    /\ trace.cache_written
    /\ ret.confidence > CacheConfidenceFloor

(***************************************************************************)
(* _safe_memory_add_turn: attempts, sessions and turns                     *)
(***************************************************************************)

\* the turns held by the open sessions, each named by session and position
TurnsIn(sessions) ==
    UNION {{<<sid, i>> : i \in 1..Len(sessions[sid].messages)} : sid \in DOMAIN sessions}

\* the turns of the sessions after a step that the step appended
Appended(before, after) ==
    {t \in TurnsIn(after) : t[1] \notin DOMAIN before \/ t[2] > Len(before[t[1]].messages)}

\* C31: a call of _safe_memory_add_turn never raises; it opens at most one
\* session, and only when the assistant's session is not in the registry;
\* it appends the turn at most once, to one session, which is open and is
\* the assistant's session after the call; no turn of any session is
\* removed or changed; each attempt draws one turn id and each session
\* opened one session id, so at most two add_turn attempts were made
C31_AtMostOnceNeverRaises ==
    [][ mem_op'.op = "_safe_memory_add_turn" =>
          \E opened \in {DOMAIN active_sessions' \ DOMAIN active_sessions} :
          \E appended \in {Appended(active_sessions, active_sessions')} :
            /\ mem_op'.raised = "none"
            /\ mem_op'.logged # "gave up"
            /\ Cardinality(opened) <= 1
            /\ opened # {} => (session_id \notin DOMAIN active_sessions /\ opened = {session_id'})
            /\ DOMAIN active_sessions \subseteq DOMAIN active_sessions'
            /\ Cardinality(appended) <= 1
            /\ \A t \in appended :
                   /\ t[1] = session_id'
                   /\ t[1] \in DOMAIN active_sessions'
                   /\ active_sessions'[t[1]].messages[t[2]].text = mem_op'.text
                   /\ active_sessions'[t[1]].messages[t[2]].role = mem_op'.role
            /\ \A sid \in DOMAIN active_sessions :
                   SubSeq(active_sessions'[sid].messages, 1, Len(active_sessions[sid].messages))
                       = active_sessions[sid].messages
            /\ uuids' - uuids <= Cardinality(opened) + 2
            /\ uuids' - uuids = Cardinality(opened) + Cardinality(appended)
            /\ conversations'[AssistantUser] - conversations[AssistantUser] <= 1 ]_vars

\* the assistant's session had left the registry: one session was opened
\* and the turn is its only turn, while another session keeps its own
C31_Witness ==
    /\ mem_op.op = "_safe_memory_add_turn"
    /\ mem_op.logged = "none"
    /\ session_id \in DOMAIN active_sessions
    /\ session_id > 1
    /\ Len(active_sessions[session_id].messages) = 1
    /\ active_sessions[session_id].messages[1].text = mem_op.text
    /\ Cardinality(DOMAIN active_sessions) = 1

(***************************************************************************)
(* The critical section of _handle_user_message                            *)
(***************************************************************************)

\* the tasks that hold _aux_lock or have been handed it
InCriticalSection == {k \in 1..Len(background_tasks) : background_tasks[k].at \in {"dispatch", "woken"}}

\* the handlers of user messages that have not finished
UserTasks == {k \in 1..Len(background_tasks) :
                  background_tasks[k].role = "user" /\ background_tasks[k].at # "cancelled"}

\* the user turns of a session, in the order of the log
UserTurns(messages) == SelectSeq(messages, LAMBDA turn : turn.role = "user")

\* at most one handler holds _aux_lock, so at most one process call is
\* awaited at any time, and it is a user message's; the user turns of every
\* session are in the log in the order in which their items were added
OneInCriticalSection ==
    /\ Cardinality(InCriticalSection) <= 1
    /\ \A k \in InCriticalSection : background_tasks[k].role = "user"
    /\ \A sid \in DOMAIN active_sessions :
       \A i, j \in 1..Len(UserTurns(active_sessions[sid].messages)) :
           i < j => PositionOf(UserTurns(active_sessions[sid].messages)[i])
                        < PositionOf(UserTurns(active_sessions[sid].messages)[j])

\* the handler that enters the critical section, or leaves it, is that of
\* the earliest user message not yet handled
EntersInArrivalOrder ==
    (mem_op'.op = "_handle_user_message" /\ mem_op'.logged # "lock") =>
        \A k \in UserTasks :
            PositionOf([role |-> "user", text |-> mem_op'.text]) <= PositionOf(background_tasks[k])

\* C32: at most one process call is in flight for the assistant at any
\* time, and the user messages go through the _aux_lock critical section
\* one at a time, in the order in which they arrived
C32_OneDispatchInArrivalOrder == []OneInCriticalSection /\ [][EntersInArrivalOrder]_vars

\* a process call is awaited while the handler of the next user message
\* waits for the lock
C32_Witness ==
    /\ \E k \in 1..Len(background_tasks) : background_tasks[k].at = "dispatch"
    /\ \E k \in 1..Len(background_tasks) :
           background_tasks[k].at = "lock" /\ background_tasks[k].text = DeepQuestionAgain

(***************************************************************************)
(* The metadata of a reply                                                 *)
(***************************************************************************)

\* the user message a reply answers: the item added just before it
QuestionOf(reply) == PositionOf(reply) - 1

\* the handler of the user message at a position has not finished
Unhandled(position) ==
    \E k \in 1..Len(background_tasks) :
        background_tasks[k].role = "user" /\ PositionOf(background_tasks[k]) = position

\* the turns recorded for the user message at a position
QuestionTurns(messages, position) ==
    {i \in 1..Len(messages) : messages[i].role = "user" /\ PositionOf(messages[i]) = position}

\* lines 411-412 and 432-436: the mode a user turn was recorded with
ModeOfTurn(turn) == IF turn.reasoning_used THEN REASONING_DEEP ELSE VOICE_FAST

\* C37: a reply that _handle_assistant_message stores carries the mode and
\* reasoning_used computed for the user message it answers, whatever the
\* interleaving of the handler tasks. The code does not keep it: a reply
\* handled while its question is with the dispatcher finds no pending
\* metadata
C37_ReplyCarriesQuestionMeta ==
    [][ ( /\ mem_op'.op = "_handle_assistant_message"
          /\ mem_op'.logged = "none"
          /\ session_id' \in DOMAIN active_sessions'
          /\ \/ Unhandled(QuestionOf([role |-> "assistant", text |-> mem_op'.text]))
             \/ QuestionTurns(active_sessions'[session_id'].messages,
                              QuestionOf([role |-> "assistant", text |-> mem_op'.text])) # {} )
        => /\ ~Unhandled(QuestionOf([role |-> "assistant", text |-> mem_op'.text]))
           /\ \A i \in QuestionTurns(active_sessions'[session_id'].messages,
                                     QuestionOf([role |-> "assistant", text |-> mem_op'.text])) :
                  /\ mem_op'.meta.reasoning_used = active_sessions'[session_id'].messages[i].reasoning_used
                  /\ mem_op'.meta.mode = ModeOfTurn(active_sessions'[session_id'].messages[i]) ]_vars

\* the reply to a question scored DEEP was stored with the default
\* metadata while the question was with the dispatcher
C37_ReplyWithDefaultMeta ==
    /\ mem_op.op = "_handle_assistant_message"
    /\ mem_op.logged = "none"
    /\ mem_op.meta = [mode |-> "realtime", reasoning_used |-> FALSE]
    /\ \E k \in 1..Len(background_tasks) :
           /\ background_tasks[k].role = "user"
           /\ background_tasks[k].at = "dispatch"
           /\ PositionOf(background_tasks[k]) = QuestionOf([role |-> "assistant", text |-> mem_op.text])

(***************************************************************************)
(* The shape of the context get_context returns                            *)
(***************************************************************************)

WellFormed(context) ==
    /\ Len(context.sources) <= MaxResults
    /\ \A i \in 1..Len(context.sources) :
           /\ context.sources[i].title # << >>
           /\ context.sources[i].url # << >>
           /\ context.sources[i].title = Strip(context.sources[i].title)
           /\ context.sources[i].url = Strip(context.sources[i].url)
    /\ context.text # << >> <=> context.sources # << >>

\* C35: every context get_context returns, and every context it keeps in
\* its cache to return later, has at most max_results sources, each with a
\* non-empty title and a non-empty url, and a text that is non-empty
\* exactly when there is a source
C35_ContextWellFormed ==
    /\ (fn_out # None /\ ~fn_out.raised) => WellFormed(fn_out.context)
    /\ \A key \in DOMAIN rt_cache : WellFormed(rt_cache[key].context)

\* the feed had an untitled item and four titled ones: the context has
\* max_results sources and a text
C35_Witness ==
    /\ fn_out # None
    /\ ~fn_out.raised
    /\ fn_in.rss = LongFeed
    /\ Len(fn_out.context.sources) = MaxResults
    /\ fn_out.context.text # << >>

(***************************************************************************)
(* What the two sections show of the documents the vector store answers.   *)
(* The store answers a query with the documents nearest to the query text, *)
(* nearest first: an order that is the store's, not the order of time.     *)
(***************************************************************************)

TextLimit == 250
MaxConversationsDefault == 3

Ellipsis == <<".", ".", ".">>

\* a text of n characters that begins with the digit k
MessageOf(k, n) == [i \in 1..n |-> IF i = 1 THEN DigitChars[(k % 10) + 1] ELSE DigitChars[(i % 10) + 1]]

\* the turns of one user in the store, oldest first: the k-th was written
\* at time k; three sessions of one turn, then a session of seven turns
SessionOfTurn == <<1, 2, 3, 4, 4, 4, 4, 4, 4, 4>>

LengthOfTurn == <<2, 2, 2, 2, TextLimit, TextLimit + 1, 2, 2, 2, 2>>

TurnDocument(k) ==
    [session_id |-> SessionOfTurn[k], timestamp |-> k,
     role |-> IF k % 2 = 1 THEN "user" ELSE "assistant",
     text |-> MessageOf(k, LengthOfTurn[k])]

\* orders in which the store may answer: oldest first, newest first, and
\* one that follows neither
AnswerOrders ==
    { <<1, 2, 3, 4, 5, 6, 7, 8, 9, 10>>,
      <<10, 9, 8, 7, 6, 5, 4, 3, 2, 1>>,
      <<7, 3, 9, 1, 5, 10, 2, 8, 4, 6>> }

\* lines 298-307: the documents not older than the cutoff, at most
\* n_results of them, in the order of the store
ConversationsAnswer(order, in_window) ==
    LET recent == SelectSeq(order, LAMBDA k : k > Len(SessionOfTurn) - in_window)
    IN  [i \in 1..Min(Len(recent), RecentLimit) |-> TurnDocument(recent[i])]

\* the keys of a dict in the order in which they were first assigned
FirstSeen(keys) ==
    LET RECURSIVE seen(_)
        seen(n) == IF n = 0 THEN << >>
                   ELSE IF keys[n] \in Range(seen(n - 1)) THEN seen(n - 1)
                   ELSE Append(seen(n - 1), keys[n])
    IN  seen(Len(keys))

\* lines 316-328: the messages of each session in the order of the answer;
\* the timestamp of a session is that of its first document in the answer
sessions_data(documents) ==
    LET sids == FirstSeen([i \in 1..Len(documents) |-> documents[i].session_id])
    IN  [i \in 1..Len(sids) |->
            LET messages == SelectSeq(documents, LAMBDA doc : doc.session_id = sids[i])
            IN  [session_id |-> sids[i], messages |-> messages, timestamp |-> messages[1].timestamp]]

\* sorted(..., reverse=True): the greatest key first, equal keys in the
\* order they had
SortedByTimestamp(items) ==
    LET RECURSIVE sorted(_)
        sorted(rest) ==
            IF rest = << >> THEN << >>
            ELSE LET first == CHOOSE i \in 1..Len(rest) :
                                  /\ \A j \in 1..Len(rest) : rest[j].timestamp <= rest[i].timestamp
                                  /\ \A j \in 1..(i - 1) : rest[j].timestamp < rest[i].timestamp
                 IN  <<rest[first]>> \o sorted([j \in 1..(Len(rest) - 1) |->
                                                   IF j < first THEN rest[j] ELSE rest[j + 1]])
    IN  sorted(items)

\* lines 346-349
Truncated(text) ==
    IF Len(text) > TextLimit THEN SubSeq(text, 1, TextLimit) \o Ellipsis ELSE text

\* lines 331-355 of _get_recent_conversations, from the answer of the
\* store on: for each session shown its heading and its message lines
RenderRecent(documents, max_sessions) ==
    LET sorted_sessions == SubSeq(SortedByTimestamp(sessions_data(documents)), 1,
                                  Min(Len(sessions_data(documents)), max_sessions))
    IN  [i \in 1..Len(sorted_sessions) |->
            LET messages == sorted_sessions[i].messages
                shown == SubSeq(messages, Len(messages) - Min(Len(messages), MessagesPerSession) + 1, Len(messages))
            IN  [session_id |-> sorted_sessions[i].session_id,
                 heading |-> <<"\n", "#", "#", " ">> \o TimeText(sorted_sessions[i].timestamp),
                 lines |-> [j \in 1..Len(shown) |->
                               [role |-> IF shown[j].role = "user" THEN "Usuário" ELSE "Você",
                                text |-> Truncated(shown[j].text)]]]]

\* the facts of one user in the store: four of each of three categories
CategoryOfFact == <<"tech_stack", "tech_stack", "tech_stack", "tech_stack",
                    "project", "project", "project", "project",
                    "learning", "learning", "learning", "learning">>

FactDocument(k) == [category |-> CategoryOfFact[k], text |-> MessageOf(k, 2)]

FactOrders ==
    { <<1, 2, 3, 4, 5, 6, 7, 8, 9, 10, 11, 12>>,
      <<1, 5, 9, 2, 6, 10, 3, 7, 11, 4, 8, 12>> }

\* lines 360-364: at most limit documents, in the order of the store
FactsAnswer(order, stored, limit) ==
    LET held == SelectSeq(order, LAMBDA k : k <= stored)
    IN  [i \in 1..Min(Len(held), limit) |-> FactDocument(held[i])]

\* lines 372-395 of _get_user_facts_context, from the answer of the store
\* on: for each category its label and its fact lines
RenderFacts(documents) ==
    LET categories == FirstSeen([i \in 1..Len(documents) |-> documents[i].category])
    IN  [i \in 1..Len(categories) |->
            LET facts == SelectSeq(documents, LAMBDA doc : doc.category = categories[i])
            IN  [category |-> categories[i],
                 lines |-> [j \in 1..Min(Len(facts), FactsPerCategory) |-> <<" ", " ", "-", " ">> \o facts[j].text]]]

RecentInputs ==
    [call : {"_get_recent_conversations"}, order : AnswerOrders, in_window : 0..Len(SessionOfTurn),
     max_sessions : 1..MaxConversationsDefault]

FactsInputs ==
    [call : {"_get_user_facts_context"}, order : FactOrders, stored : 0..Len(CategoryOfFact),
     limit : {1, FactsPerCategory + 1, MaxFactsDefault}]

RenderInit ==
    /\ fn_in \in RecentInputs \cup FactsInputs
    /\ fn_out = None
    /\ enabled = TRUE
    /\ DispatcherInit
    /\ GhostIdle
    /\ MemoryIdle
    /\ TokenIdle

RecentCall ==
    /\ fn_out = None
    /\ fn_in.call = "_get_recent_conversations"
    /\ \E documents \in {ConversationsAnswer(fn_in.order, fn_in.in_window)} :
           fn_out' = [documents |-> documents, formatted |-> RenderRecent(documents, fn_in.max_sessions)]
    /\ UNCHANGED fn_in
    /\ UNCHANGED <<gateVars, cacheVars, processVars, cacheGhost, memoryVars>>

FactsCall ==
    /\ fn_out = None
    /\ fn_in.call = "_get_user_facts_context"
    /\ \E documents \in {FactsAnswer(fn_in.order, fn_in.stored, fn_in.limit)} :
           fn_out' = [documents |-> documents, formatted |-> RenderFacts(documents)]
    /\ UNCHANGED fn_in
    /\ UNCHANGED <<gateVars, cacheVars, processVars, cacheGhost, memoryVars>>

RenderNext == RecentCall \/ FactsCall

SpecRender == RenderInit /\ [][RenderNext]_vars

(***************************************************************************)
(* What the sections show                                                  *)
(***************************************************************************)

\* the documents of a session in the answer of the store
DocumentsOf(documents, sid) == {documents[i] : i \in {j \in 1..Len(documents) : documents[j].session_id = sid}}

\* the last n of them in time
LastOf(docs, n) == {d \in docs : Cardinality({e \in docs : e.timestamp > d.timestamp}) < n}

\* a line shows a document: its text, or its first 250 characters and a mark
ShowsDocument(line, doc) ==
    /\ Len(line.text) <= TextLimit + Len(Ellipsis)
    /\ Len(line.text) >= Min(Len(doc.text), TextLimit)
    /\ SubSeq(line.text, 1, Min(Len(doc.text), TextLimit)) = SubSeq(doc.text, 1, Min(Len(doc.text), TextLimit))
    /\ Len(doc.text) <= TextLimit => line.text = doc.text
    /\ Len(doc.text) > TextLimit => Len(line.text) > TextLimit

\* at most max_sessions sessions, the one with the latest turn first
SessionsCappedAndOrdered ==
    /\ Len(fn_out.formatted) <= fn_in.max_sessions
    /\ \A i, j \in 1..Len(fn_out.formatted) :
           i < j => \E d \in DocumentsOf(fn_out.documents, fn_out.formatted[i].session_id) :
                        \A e \in DocumentsOf(fn_out.documents, fn_out.formatted[j].session_id) :
                            d.timestamp > e.timestamp

\* at most six lines for a session, each cut at 250 characters
LinesCappedAndCut ==
    \A i \in 1..Len(fn_out.formatted) :
        /\ Len(fn_out.formatted[i].lines) <= MessagesPerSession
        /\ \A j \in 1..Len(fn_out.formatted[i].lines) :
               \E d \in DocumentsOf(fn_out.documents, fn_out.formatted[i].session_id) :
                   ShowsDocument(fn_out.formatted[i].lines[j], d)

\* the lines of a session show its last messages
LastMessagesShown ==
    \A i \in 1..Len(fn_out.formatted) :
        \A d \in LastOf(DocumentsOf(fn_out.documents, fn_out.formatted[i].session_id), MessagesPerSession) :
            \E j \in 1..Len(fn_out.formatted[i].lines) : ShowsDocument(fn_out.formatted[i].lines[j], d)

\* at most three facts for a category and at most limit facts in all
FactsCapped ==
    /\ \A i \in 1..Len(fn_out.formatted) : Len(fn_out.formatted[i].lines) <= FactsPerCategory
    /\ Cardinality(UNION {{<<i, j>> : j \in 1..Len(fn_out.formatted[i].lines)} :
                              i \in 1..Len(fn_out.formatted)}) <= fn_in.limit

\* C36: the recent conversations are rendered as at most max_conversations
\* sessions, most recent first, each with at most its last 6 messages, each
\* message cut at 250 characters; the facts as at most 3 for a category and
\* at most max_facts in all. The code does not keep the third part: the
\* six messages are the last six of the store's answer, which is not in
\* the order of time
C36_LastSixOfEachSession ==
    /\ (fn_out # None /\ fn_in.call = "_get_recent_conversations") =>
           (SessionsCappedAndOrdered /\ LinesCappedAndCut /\ LastMessagesShown)
    /\ (fn_out # None /\ fn_in.call = "_get_user_facts_context") => FactsCapped

\* the caps, the order of the sessions and the cut alone
C36_CapsOrderAndCut ==
    /\ (fn_out # None /\ fn_in.call = "_get_recent_conversations") =>
           (SessionsCappedAndOrdered /\ LinesCappedAndCut)
    /\ (fn_out # None /\ fn_in.call = "_get_user_facts_context") => FactsCapped

\* the store answered newest first: of the seven turns of the session the
\* latest is not shown and the oldest is
C36_LatestTurnNotShown ==
    /\ fn_out # None
    /\ fn_in.call = "_get_recent_conversations"
    /\ fn_in.in_window = Len(SessionOfTurn)
    /\ \E i \in 1..Len(fn_out.formatted) :
           /\ fn_out.formatted[i].session_id = 4
           /\ Len(fn_out.formatted[i].lines) = MessagesPerSession
           /\ \E j \in 1..MessagesPerSession : ShowsDocument(fn_out.formatted[i].lines[j], TurnDocument(4))
           /\ \A j \in 1..MessagesPerSession :
                  ~ShowsDocument(fn_out.formatted[i].lines[j], TurnDocument(Len(SessionOfTurn)))

(***************************************************************************)
(* The token server: ensure_agent_dispatch called by the handlers of       *)
(* /api/livekit/token and /api/livekit/dispatch.  The handlers run on one  *)
(* event loop and every call to the LiveKit server is awaited, so calls    *)
(* for the same room interleave at each await; the server answers one      *)
(* call at a time.                                                         *)
(***************************************************************************)

MaxRequests == 3

Rooms == {"pulse-room", "other-room"}

RequestIds == 1..MaxRequests

\* a call that has not returned: the request it awaits
Awaiting(r, at) == r \in DOMAIN requests /\ requests[r].at = at

\* the id the server gives to a new dispatch of a room
NewDispatchId(room) == <<room, Len(dispatches[room]) + 1>>

\* the assistant, its memory and the dispatcher are other processes
TokenFrame ==
    UNCHANGED <<gateVars, cacheVars, processVars, cacheGhost, fnVars, agentVars,
                active_sessions, sessions_file, storeVars, session_id, uuids, mem_op>>

\* a handler calls ensure_agent_dispatch: lines 84-90, up to the first await
EnsureCall(r, room_name) ==
    /\ r \notin DOMAIN requests
    /\ \A q \in RequestIds : q < r => q \in DOMAIN requests
    /\ requests' = (r :> [room_name |-> room_name, at |-> "create_room", existing |-> << >>,
                          returned |-> None]) @@ requests
    /\ UNCHANGED dispatches
    /\ TokenFrame

\* lines 89-93: the server creates the room or answers already_exists,
\* which is ignored; any other error is raised
CreateRoomReturns(r, error) ==
    /\ Awaiting(r, "create_room")
    /\ IF error
           THEN /\ requests' = [requests EXCEPT ![r].at = "raised"]
                /\ UNCHANGED dispatches
           ELSE /\ dispatches' = IF requests[r].room_name \in DOMAIN dispatches THEN dispatches
                                 ELSE (requests[r].room_name :> << >>) @@ dispatches
                /\ requests' = [requests EXCEPT ![r].at = "list_dispatch"]
    /\ TokenFrame

\* lines 95-97: the answer of list_dispatch decides
AfterList(request, existing) ==
    IF existing # << >>
        THEN [request EXCEPT !.existing = existing, !.at = "returned",
                             !.returned = [dispatch_id |-> existing[1], created |-> FALSE]]
        ELSE [request EXCEPT !.existing = existing, !.at = "create_dispatch"]

ListDispatchReturns(r) ==
    /\ Awaiting(r, "list_dispatch")
    /\ requests' = [requests EXCEPT ![r] = AfterList(requests[r], dispatches[requests[r].room_name])]
    /\ UNCHANGED dispatches
    /\ TokenFrame

\* lines 99-107: the server adds a dispatch to the room and answers its id
CreateDispatchReturns(r) ==
    /\ Awaiting(r, "create_dispatch")
    /\ dispatches' = [dispatches EXCEPT ![requests[r].room_name] =
                          Append(@, NewDispatchId(requests[r].room_name))]
    /\ requests' = [requests EXCEPT ![r].at = "returned",
                                    ![r].returned = [dispatch_id |-> NewDispatchId(requests[r].room_name),
                                                     created |-> TRUE]]
    /\ TokenFrame

TokenInit ==
    /\ TokenIdle
    /\ enabled = TRUE
    /\ DispatcherInit
    /\ GhostIdle
    /\ FnIdle
    /\ MemoryIdle

TokenNext ==
    \/ \E r \in RequestIds, room_name \in Rooms : EnsureCall(r, room_name)
    \/ \E r \in RequestIds, error \in BOOLEAN : CreateRoomReturns(r, error)
    \/ \E r \in RequestIds : ListDispatchReturns(r)
    \/ \E r \in RequestIds : CreateDispatchReturns(r)

SpecToken == TokenInit /\ [][TokenNext]_vars

(***************************************************************************)
(* One dispatch for a room                                                 *)
(***************************************************************************)

\* C40: whatever the interleaving of the ensure_agent_dispatch calls for a
\* room, the room has at most one agent dispatch, and a call that found a
\* dispatch created none and reported created = false. The code does not
\* keep the first part: two calls that list the dispatches of the room
\* before either has created one both create one
C40_AtMostOneDispatch ==
    /\ \A room \in DOMAIN dispatches : Len(dispatches[room]) <= 1
    /\ \A r \in DOMAIN requests :
           requests[r].existing # << >> =>
               /\ requests[r].at = "returned"
               /\ requests[r].returned = [dispatch_id |-> requests[r].existing[1], created |-> FALSE]

\* the second part alone, and what a call that found no dispatch reports
C40_ReportsWhatItFound ==
    \A r \in DOMAIN requests :
        /\ requests[r].existing # << >> =>
               /\ requests[r].at = "returned"
               /\ requests[r].returned = [dispatch_id |-> requests[r].existing[1], created |-> FALSE]
        /\ (requests[r].at = "returned" /\ requests[r].existing = << >>) =>
               /\ requests[r].returned.created
               /\ \E i \in 1..Len(dispatches[requests[r].room_name]) :
                      dispatches[requests[r].room_name][i] = requests[r].returned.dispatch_id

\* two calls for one room have returned and each reports the dispatch it
\* created
C40_TwoDispatchesCreated ==
    \E r, q \in DOMAIN requests :
        /\ r # q
        /\ requests[r].room_name = requests[q].room_name
        /\ requests[r].at = "returned" /\ requests[r].returned.created
        /\ requests[q].at = "returned" /\ requests[q].returned.created
        /\ Len(dispatches[requests[r].room_name]) = 2

====
